---- MODULE Spec2Model ----
(***************************************************************************)
(* A state-machine model of the TouchUserInterfaceForArduino library: the  *)
(* touch-event state machine (getTouchEvents), the rectangle hit test, and *)
(* the menu engine (displayAndExecuteMenu and the functions it calls).     *)
(***************************************************************************)
EXTENDS Integers, Sequences, FiniteSets, TLC

\* ---------------------------------------------------------------------------
\*                     Program constants (touch screen)
\* ---------------------------------------------------------------------------

WAITING_FOR_TOUCH_DOWN_STATE == 0
CONFIRM_TOUCH_DOWN_STATE == 1
WAITING_FOR_TOUCH_UP_STATE == 2
WAITING_FOR_TOUCH_UP_AFTER_AUTO_REPEAT_STATE == 3
CONFIRM_TOUCH_UP_STATE == 4

TOUCH_DEBOUNCE_PERIOD == 30
TOUCH_AUTO_REPEAT_DELAY == 800
TOUCH_AUTO_REPEAT_RATE == 120

\* the four kinds of touch event (touchEventType)
TOUCH_NO_EVENT == "TOUCH_NO_EVENT"
TOUCH_PUSHED_EVENT == "TOUCH_PUSHED_EVENT"
TOUCH_RELEASED_EVENT == "TOUCH_RELEASED_EVENT"
TOUCH_REPEAT_EVENT == "TOUCH_REPEAT_EVENT"

\* millis() and touchEventStartTime are unsigned long (32 bits): a value is held as
\* its two 16-bit halves <<high, low>>, and arithmetic is modulo 2^32
HalfWord == 65536
ULong(n) == <<(n \div HalfWord) % HalfWord, n % HalfWord>>
AddULong(t, n) ==
  LET low == t[2] + n
  IN <<(t[1] + (low \div HalfWord)) % HalfWord, low % HalfWord>>
LessULong(a, b) == a[1] < b[1] \/ (a[1] = b[1] /\ a[2] < b[2])

\* ---------------------------------------------------------------------------
\*                              Bounds of the model
\* ---------------------------------------------------------------------------

\* polls are explored during this many ms
MaxTime == 1000

\* the shortest interval between two polls: three polls in a debounce period
ShortPoll == TOUCH_DEBOUNCE_PERIOD \div 3

\* the intervals between two consecutive polls
PollSteps ==
  {ShortPoll, TOUCH_DEBOUNCE_PERIOD, TOUCH_AUTO_REPEAT_RATE, TOUCH_AUTO_REPEAT_DELAY}

\* ---------------------------------------------------------------------------
\*                                   State
\* ---------------------------------------------------------------------------

VARIABLES
  now,                  \* the value millis() returned at the most recent poll
  elapsed,              \* ms that have passed since the initial state (observation only)
  sample,               \* what getTouchScreenCoords returned at the most recent poll
  touchState,           \* touchState
  touchEventStartTime,  \* static touchEventStartTime of getTouchEvents
  recordedTouchX,       \* static recordedTouchX of getTouchEvents
  recordedTouchY,       \* static recordedTouchY of getTouchEvents
  touchEventType,       \* touchEventType
  touchEventX,          \* touchEventX
  touchEventY,          \* touchEventY
  hist                  \* history of the touch cycle (observation only)

touchVars ==
  <<touchState, touchEventStartTime, recordedTouchX, recordedTouchY,
    touchEventType, touchEventX, touchEventY>>


\* ---------------------------------------------------------------------------
\*                      The touch sensor (external collaborator)
\* ---------------------------------------------------------------------------

\* LCD coordinates a finger can be sampled at: inside the title bar's Back
\* button, inside the menu buttons of the tables below, and between buttons
PointBack == [x |-> 20, y |-> 15]
PointA == [x |-> 100, y |-> 70]
PointB == [x |-> 200, y |-> 120]
PointC == [x |-> 150, y |-> 200]
PointGap == [x |-> 160, y |-> 103]
TouchPoints == {PointBack, PointA, PointB, PointC, PointGap}

\* getTouchScreenCoords: false (nothing written to the coordinates, which are never
\* read in that case), or true with the LCD coordinates of the touch
NotTouched == [touched |-> FALSE, x |-> 0, y |-> 0]
Touched(p) == [touched |-> TRUE, x |-> p.x, y |-> p.y]
Samples == {NotTouched} \cup {Touched(p) : p \in TouchPoints}
\* the samples of a finger that rests on one point or moves between two
TwoPointSamples == {NotTouched, Touched(PointA), Touched(PointB)}

\* ---------------------------------------------------------------------------
\*                         getTouchEvents, case by case
\* ---------------------------------------------------------------------------

\* (mutant) the period counts as elapsed only once currentTime is past the deadline
PeriodElapsed_PastDeadline(currentTime, period) ==
  LessULong(AddULong(touchEventStartTime, period), currentTime)

\* "currentTime < (touchEventStartTime + period)" is false: the comparison is
\* between unsigned longs, the sum wraps at 2^32
PeriodElapsed(currentTime, period) ==
  ~LessULong(currentTime, AddULong(touchEventStartTime, period))

\* (mutant) the event of the poll before is not cleared
CaseWaitingForTouchDown_KeepsEvent(currentTime, s) ==
  /\ IF s.touched
       THEN /\ touchState' = CONFIRM_TOUCH_DOWN_STATE
            /\ touchEventStartTime' = currentTime
       ELSE UNCHANGED <<touchState, touchEventStartTime>>
  /\ UNCHANGED <<touchEventType, recordedTouchX, recordedTouchY, touchEventX, touchEventY>>

\* case WAITING_FOR_TOUCH_DOWN_STATE
CaseWaitingForTouchDown(currentTime, s) ==
  /\ touchEventType' = TOUCH_NO_EVENT
  /\ IF s.touched
       THEN /\ touchState' = CONFIRM_TOUCH_DOWN_STATE
            /\ touchEventStartTime' = currentTime
       ELSE UNCHANGED <<touchState, touchEventStartTime>>
  /\ UNCHANGED <<recordedTouchX, recordedTouchY, touchEventX, touchEventY>>

\* (mutant) the touch is reported after the debounce period without sampling again
CaseConfirmTouchDown_NoRecheck(currentTime, s) ==
  IF ~PeriodElapsed(currentTime, TOUCH_DEBOUNCE_PERIOD)
    THEN /\ touchEventType' = TOUCH_NO_EVENT
         /\ UNCHANGED <<touchState, touchEventStartTime, recordedTouchX,
                        recordedTouchY, touchEventX, touchEventY>>
    ELSE /\ recordedTouchX' = s.x
         /\ recordedTouchY' = s.y
         /\ touchEventStartTime' = currentTime
         /\ touchState' = WAITING_FOR_TOUCH_UP_STATE
         /\ touchEventX' = recordedTouchX'
         /\ touchEventY' = recordedTouchY'
         /\ touchEventType' = TOUCH_PUSHED_EVENT

\* case CONFIRM_TOUCH_DOWN_STATE
CaseConfirmTouchDown(currentTime, s) ==
  IF ~PeriodElapsed(currentTime, TOUCH_DEBOUNCE_PERIOD)
    THEN /\ touchEventType' = TOUCH_NO_EVENT
         /\ UNCHANGED <<touchState, touchEventStartTime, recordedTouchX,
                        recordedTouchY, touchEventX, touchEventY>>
    ELSE IF ~s.touched
      THEN /\ touchState' = WAITING_FOR_TOUCH_DOWN_STATE
           /\ touchEventType' = TOUCH_NO_EVENT
           /\ UNCHANGED <<touchEventStartTime, recordedTouchX, recordedTouchY,
                          touchEventX, touchEventY>>
      ELSE /\ recordedTouchX' = s.x
           /\ recordedTouchY' = s.y
           /\ touchEventStartTime' = currentTime
           /\ touchState' = WAITING_FOR_TOUCH_UP_STATE
           /\ touchEventX' = recordedTouchX'
           /\ touchEventY' = recordedTouchY'
           /\ touchEventType' = TOUCH_PUSHED_EVENT

\* (mutant) the first auto repeat comes after the auto repeat period
CaseWaitingForTouchUp_NoDelay(currentTime, s) ==
  IF ~s.touched
    THEN /\ touchState' = CONFIRM_TOUCH_UP_STATE
         /\ touchEventType' = TOUCH_NO_EVENT
         /\ UNCHANGED <<touchEventStartTime, recordedTouchX, recordedTouchY,
                        touchEventX, touchEventY>>
    ELSE IF ~PeriodElapsed(currentTime, TOUCH_AUTO_REPEAT_RATE)
      THEN /\ touchEventType' = TOUCH_NO_EVENT
           /\ UNCHANGED <<touchState, touchEventStartTime, recordedTouchX,
                          recordedTouchY, touchEventX, touchEventY>>
      ELSE /\ touchEventStartTime' = currentTime
           /\ touchState' = WAITING_FOR_TOUCH_UP_AFTER_AUTO_REPEAT_STATE
           /\ touchEventX' = recordedTouchX
           /\ touchEventY' = recordedTouchY
           /\ touchEventType' = TOUCH_REPEAT_EVENT
           /\ UNCHANGED <<recordedTouchX, recordedTouchY>>

\* (mutant) a touch that is lifted before it repeats is forgotten
CaseWaitingForTouchUp_DropsRelease(currentTime, s) ==
  IF ~s.touched
    THEN /\ touchState' = WAITING_FOR_TOUCH_DOWN_STATE
         /\ touchEventType' = TOUCH_NO_EVENT
         /\ UNCHANGED <<touchEventStartTime, recordedTouchX, recordedTouchY,
                        touchEventX, touchEventY>>
    ELSE IF ~PeriodElapsed(currentTime, TOUCH_AUTO_REPEAT_DELAY)
      THEN /\ touchEventType' = TOUCH_NO_EVENT
           /\ UNCHANGED <<touchState, touchEventStartTime, recordedTouchX,
                          recordedTouchY, touchEventX, touchEventY>>
      ELSE /\ touchEventStartTime' = currentTime
           /\ touchState' = WAITING_FOR_TOUCH_UP_AFTER_AUTO_REPEAT_STATE
           /\ touchEventX' = recordedTouchX
           /\ touchEventY' = recordedTouchY
           /\ touchEventType' = TOUCH_REPEAT_EVENT
           /\ UNCHANGED <<recordedTouchX, recordedTouchY>>

\* case WAITING_FOR_TOUCH_UP_STATE
CaseWaitingForTouchUp(currentTime, s) ==
  IF ~s.touched
    THEN /\ touchState' = CONFIRM_TOUCH_UP_STATE
         /\ touchEventType' = TOUCH_NO_EVENT
         /\ UNCHANGED <<touchEventStartTime, recordedTouchX, recordedTouchY,
                        touchEventX, touchEventY>>
    ELSE IF ~PeriodElapsed(currentTime, TOUCH_AUTO_REPEAT_DELAY)
      THEN /\ touchEventType' = TOUCH_NO_EVENT
           /\ UNCHANGED <<touchState, touchEventStartTime, recordedTouchX,
                          recordedTouchY, touchEventX, touchEventY>>
      ELSE /\ touchEventStartTime' = currentTime
           /\ touchState' = WAITING_FOR_TOUCH_UP_AFTER_AUTO_REPEAT_STATE
           /\ touchEventX' = recordedTouchX
           /\ touchEventY' = recordedTouchY
           /\ touchEventType' = TOUCH_REPEAT_EVENT
           /\ UNCHANGED <<recordedTouchX, recordedTouchY>>

\* (mutant) an auto repeat reports where the finger is now
CaseWaitingForTouchUpAfterAutoRepeat_LiveCoords(currentTime, s) ==
  IF ~s.touched
    THEN /\ touchState' = CONFIRM_TOUCH_UP_STATE
         /\ touchEventType' = TOUCH_NO_EVENT
         /\ UNCHANGED <<touchEventStartTime, recordedTouchX, recordedTouchY,
                        touchEventX, touchEventY>>
    ELSE IF ~PeriodElapsed(currentTime, TOUCH_AUTO_REPEAT_RATE)
      THEN /\ touchEventType' = TOUCH_NO_EVENT
           /\ UNCHANGED <<touchState, touchEventStartTime, recordedTouchX,
                          recordedTouchY, touchEventX, touchEventY>>
      ELSE /\ touchEventStartTime' = currentTime
           /\ touchEventX' = s.x
           /\ touchEventY' = s.y
           /\ touchEventType' = TOUCH_REPEAT_EVENT
           /\ UNCHANGED <<touchState, recordedTouchX, recordedTouchY>>

\* case WAITING_FOR_TOUCH_UP_AFTER_AUTO_REPEAT_STATE
CaseWaitingForTouchUpAfterAutoRepeat(currentTime, s) ==
  IF ~s.touched
    THEN /\ touchState' = CONFIRM_TOUCH_UP_STATE
         /\ touchEventType' = TOUCH_NO_EVENT
         /\ UNCHANGED <<touchEventStartTime, recordedTouchX, recordedTouchY,
                        touchEventX, touchEventY>>
    ELSE IF ~PeriodElapsed(currentTime, TOUCH_AUTO_REPEAT_RATE)
      THEN /\ touchEventType' = TOUCH_NO_EVENT
           /\ UNCHANGED <<touchState, touchEventStartTime, recordedTouchX,
                          recordedTouchY, touchEventX, touchEventY>>
      ELSE /\ touchEventStartTime' = currentTime
           /\ touchEventX' = recordedTouchX
           /\ touchEventY' = recordedTouchY
           /\ touchEventType' = TOUCH_REPEAT_EVENT
           /\ UNCHANGED <<touchState, recordedTouchX, recordedTouchY>>

\* (mutant) a touch while the release is being confirmed resumes the held touch
CaseConfirmTouchUp_RetouchResumes(currentTime, s) ==
  IF s.touched
    THEN /\ touchState' = WAITING_FOR_TOUCH_UP_AFTER_AUTO_REPEAT_STATE
         /\ touchEventType' = TOUCH_NO_EVENT
         /\ UNCHANGED <<touchEventStartTime, recordedTouchX, recordedTouchY,
                        touchEventX, touchEventY>>
    ELSE IF ~PeriodElapsed(currentTime, TOUCH_DEBOUNCE_PERIOD)
      THEN /\ touchEventType' = TOUCH_NO_EVENT
           /\ UNCHANGED <<touchState, touchEventStartTime, recordedTouchX,
                          recordedTouchY, touchEventX, touchEventY>>
      ELSE /\ touchState' = WAITING_FOR_TOUCH_DOWN_STATE
           /\ touchEventX' = recordedTouchX
           /\ touchEventY' = recordedTouchY
           /\ touchEventType' = TOUCH_RELEASED_EVENT
           /\ UNCHANGED <<touchEventStartTime, recordedTouchX, recordedTouchY>>

\* case CONFIRM_TOUCH_UP_STATE
CaseConfirmTouchUp(currentTime, s) ==
  IF s.touched
    THEN /\ touchEventStartTime' = currentTime
         /\ touchEventType' = TOUCH_NO_EVENT
         /\ UNCHANGED <<touchState, recordedTouchX, recordedTouchY,
                        touchEventX, touchEventY>>
    ELSE IF ~PeriodElapsed(currentTime, TOUCH_DEBOUNCE_PERIOD)
      THEN /\ touchEventType' = TOUCH_NO_EVENT
           /\ UNCHANGED <<touchState, touchEventStartTime, recordedTouchX,
                          recordedTouchY, touchEventX, touchEventY>>
      ELSE /\ touchState' = WAITING_FOR_TOUCH_DOWN_STATE
           /\ touchEventX' = recordedTouchX
           /\ touchEventY' = recordedTouchY
           /\ touchEventType' = TOUCH_RELEASED_EVENT
           /\ UNCHANGED <<touchEventStartTime, recordedTouchX, recordedTouchY>>

\* getTouchEvents, called when millis() returns currentTime and
\* getTouchScreenCoords returns s
getTouchEvents(currentTime, s) ==
  CASE touchState = WAITING_FOR_TOUCH_DOWN_STATE ->
         CaseWaitingForTouchDown(currentTime, s)
    [] touchState = CONFIRM_TOUCH_DOWN_STATE ->
         CaseConfirmTouchDown(currentTime, s)
    [] touchState = WAITING_FOR_TOUCH_UP_STATE ->
         CaseWaitingForTouchUp(currentTime, s)
    [] touchState = WAITING_FOR_TOUCH_UP_AFTER_AUTO_REPEAT_STATE ->
         CaseWaitingForTouchUpAfterAutoRepeat(currentTime, s)
    [] touchState = CONFIRM_TOUCH_UP_STATE ->
         CaseConfirmTouchUp(currentTime, s)

\* (mutant) the right and the bottom edge of the rectangle are outside it
checkForTouchEventInRect_OpenEdges(event, eventType, rectX1, rectY1, rectX2, rectY2) ==
  IF eventType # event.touchEventType
    THEN FALSE
    ELSE /\ event.touchEventX >= rectX1 /\ event.touchEventX < rectX2
         /\ event.touchEventY >= rectY1 /\ event.touchEventY < rectY2

\* checkForTouchEventInRect
\* the event is the one the latest getTouchEvents left in touchEventType/X/Y
checkForTouchEventInRect(event, eventType, rectX1, rectY1, rectX2, rectY2) ==
  IF eventType # event.touchEventType
    THEN FALSE
    ELSE /\ event.touchEventX >= rectX1 /\ event.touchEventX <= rectX2
         /\ event.touchEventY >= rectY1 /\ event.touchEventY <= rectY2


\* ---------------------------------------------------------------------------
\*                       Screen geometry and menu tables
\* ---------------------------------------------------------------------------

\* C integer division truncates toward zero
CDiv(a, b) ==
  IF (a >= 0) = (b > 0) THEN (IF a >= 0 THEN a ELSE -a) \div (IF b > 0 THEN b ELSE -b)
  ELSE -((IF a >= 0 THEN a ELSE -a) \div (IF b > 0 THEN b ELSE -b))

\* the 320x240 LCD in a landscape orientation
lcdWidth == 320
lcdHeight == 240
titleBarHeight == 34
arrowWidth == 8

\* setOrientation
displaySpaceWidth == lcdWidth - 2
displaySpaceHeight == lcdHeight - titleBarHeight - 1
displaySpaceLeftX == 1
displaySpaceTopY == titleBarHeight

\* lcdStringWidthInPixels("Back") in the title bar font
BackTextWidth == 35

TITLE_BAR_BUTTON_TYPE_NONE == 0
TITLE_BAR_BUTTON_TYPE_BACK == 1
TITLE_BAR_BUTTON_TYPE_MENU == 2

MENU_ITEM_TYPE_MAIN_MENU_HEADER == "MENU_ITEM_TYPE_MAIN_MENU_HEADER"
MENU_ITEM_TYPE_SUB_MENU_HEADER == "MENU_ITEM_TYPE_SUB_MENU_HEADER"
MENU_ITEM_TYPE_SUB_MENU == "MENU_ITEM_TYPE_SUB_MENU"
MENU_ITEM_TYPE_COMMAND == "MENU_ITEM_TYPE_COMMAND"
MENU_ITEM_TYPE_TOGGLE == "MENU_ITEM_TYPE_TOGGLE"
MENU_ITEM_TYPE_END_OF_MENU == "MENU_ITEM_TYPE_END_OF_MENU"

NULL == "NULL"

\* one line of a menu table: {MenuItemType, MenuItemText, MenuItemFunction, MenuItemSubMenu}
MenuItem(type, text, function, subMenu) ==
  [MenuItemType |-> type, MenuItemText |-> text,
   MenuItemFunction |-> function, MenuItemSubMenu |-> subMenu]

\* The menu tables of the application.  mainMenu has a NULL fourth field (Back exits
\* the menus), stationMenu links to itself (no Back button); settingsMenu is entered
\* from both main menus and names mainMenu as its parent; servoMenu is entered from
\* settingsMenu and names mainMenu as its parent.
MenuTables ==
  [mainMenu |->
     <<MenuItem(MENU_ITEM_TYPE_MAIN_MENU_HEADER, "Main", 1, NULL),
       MenuItem(MENU_ITEM_TYPE_COMMAND, "Gettsburg address", "commandGettsburgAddress", NULL),
       MenuItem(MENU_ITEM_TYPE_TOGGLE, "LED", "menuToggleLEDCallback", NULL),
       MenuItem(MENU_ITEM_TYPE_SUB_MENU, "Settings", NULL, "settingsMenu"),
       MenuItem(MENU_ITEM_TYPE_END_OF_MENU, "", NULL, NULL)>>,
   stationMenu |->
     <<MenuItem(MENU_ITEM_TYPE_MAIN_MENU_HEADER, "Station", 1, "stationMenu"),
       MenuItem(MENU_ITEM_TYPE_SUB_MENU, "Settings", NULL, "settingsMenu"),
       MenuItem(MENU_ITEM_TYPE_COMMAND, "Count to one", "commandCountTo1", NULL),
       MenuItem(MENU_ITEM_TYPE_TOGGLE, "LED", "menuToggleLEDCallback", NULL),
       MenuItem(MENU_ITEM_TYPE_END_OF_MENU, "", NULL, NULL)>>,
   settingsMenu |->
     <<MenuItem(MENU_ITEM_TYPE_SUB_MENU_HEADER, "Settings", 2, "mainMenu"),
       MenuItem(MENU_ITEM_TYPE_COMMAND, "Count to one", "commandCountTo1", NULL),
       MenuItem(MENU_ITEM_TYPE_SUB_MENU, "Servo", NULL, "servoMenu"),
       MenuItem(MENU_ITEM_TYPE_TOGGLE, "LED", "menuToggleLEDCallback", NULL),
       MenuItem(MENU_ITEM_TYPE_END_OF_MENU, "", NULL, NULL)>>,
   servoMenu |->
     <<MenuItem(MENU_ITEM_TYPE_SUB_MENU_HEADER, "Servo", 1, "mainMenu"),
       MenuItem(MENU_ITEM_TYPE_COMMAND, "Gettsburg address", "commandGettsburgAddress", NULL),
       MenuItem(MENU_ITEM_TYPE_END_OF_MENU, "", NULL, NULL)>>]

MenuNames == DOMAIN MenuTables
\* the tables an application hands to displayAndExecuteMenu
MainMenus == {m \in MenuNames : MenuTables[m][1].MenuItemType = MENU_ITEM_TYPE_MAIN_MENU_HEADER}

\* table[idx], idx counted from 0 as in C
TableItem(table, idx) == MenuTables[table][idx + 1]

\* "count the total number of buttons" of getMenuButtonSizeAndLocation
RECURSIVE CountButtonsFrom(_, _)
CountButtonsFrom(table, idx) ==
  IF TableItem(table, idx).MenuItemType = MENU_ITEM_TYPE_END_OF_MENU THEN 0
  ELSE 1 + CountButtonsFrom(table, idx + 1)

\* the width or height of a button: count buttons share space, with 10 pixels of padding
\* at both ends and 10 pixels between buttons
ButtonSize(space, count) ==
  CDiv(space - (10 * 2) - (10 * (count - 1)), count)

\* the padding that centers count buttons of the given size in space
CenteringPadding_Fixed(space, size, count) == 10

CenteringPadding(space, size, count) ==
  CDiv(space - (size * count) - (10 * (count - 1)), 2)

\* the number of buttons on the row of a button
ButtonCountOnThisRow_AlwaysFull(buttonCount, columnsOfButtons, buttonRow, rowsOfButtons) ==
  columnsOfButtons

ButtonCountOnThisRow(buttonCount, columnsOfButtons, buttonRow, rowsOfButtons) ==
  IF (buttonRow # rowsOfButtons - 1) \/ (buttonCount % columnsOfButtons = 0)
    THEN columnsOfButtons
    ELSE buttonCount % columnsOfButtons

\* the coordinate of the button at position index of a row or column starting at start
ButtonOrigin_NoPadding(start, size, index) == start + size * index

ButtonOrigin(start, size, index) == start + (size + 10) * index

\* the size and location of a menu button laid out for buttonCount buttons in the
\* columns asked for by the header (columnsField = (int) MenuItemFunction)
MenuButtonLayout(buttonCount, columnsField, menuIdx) ==
  LET menuButtonNumber == menuIdx - 1
      columnsOfButtons == IF columnsField < 1 \/ columnsField > 4 THEN 1 ELSE columnsField
      rowsOfButtons == CDiv(buttonCount + columnsOfButtons - 1, columnsOfButtons)
      buttonWidth == ButtonSize(displaySpaceWidth, columnsOfButtons)
      buttonHeight == ButtonSize(displaySpaceHeight, rowsOfButtons)
      paddingOnTopAndBottomOfButtons ==
        CenteringPadding(displaySpaceHeight, buttonHeight, rowsOfButtons)
      buttonRow == CDiv(menuButtonNumber, columnsOfButtons)
      buttonColumn == menuButtonNumber - (buttonRow * columnsOfButtons)
      buttonCountOnThisRow ==
        ButtonCountOnThisRow(buttonCount, columnsOfButtons, buttonRow, rowsOfButtons)
      leftMostButtonX ==
        displaySpaceLeftX
          + CenteringPadding(displaySpaceWidth, buttonWidth, buttonCountOnThisRow)
  IN [buttonX |-> ButtonOrigin(leftMostButtonX, buttonWidth, buttonColumn),
      buttonY |-> ButtonOrigin(displaySpaceTopY + paddingOnTopAndBottomOfButtons,
                               buttonHeight, buttonRow),
      buttonWidth |-> buttonWidth,
      buttonHeight |-> buttonHeight]

\* getMenuButtonSizeAndLocation(menuIdx, ...) with currentMenuTable = table
getMenuButtonSizeAndLocation(table, menuIdx) ==
  MenuButtonLayout(CountButtonsFrom(table, 1), TableItem(table, 0).MenuItemFunction, menuIdx)

\* getBackButtonSizeAndLocation
getBackButtonSizeAndLocation ==
  LET buttonHeight == titleBarHeight - 6
      backButtonRadius == CDiv(buttonHeight, 2)
  IN [buttonX |-> 4,
      buttonY |-> CDiv(titleBarHeight - buttonHeight, 2),
      buttonWidth |-> backButtonRadius + arrowWidth * 2 + BackTextWidth + backButtonRadius - 3,
      buttonHeight |-> buttonHeight]

\* ---------------------------------------------------------------------------
\*                              The menu engine
\* ---------------------------------------------------------------------------

VARIABLES
  pc,                        \* where the sketch is: "loop", "displayAndExecuteMenu"
                             \* (inside its while loop) or "command" (inside a callback)
  running,                   \* the Command callback in progress, NULL if none
  currentMenuTable,
  buttonTypeOnTitleBar,
  inMenuCallbackFunction,
  toggleSelectNextStateFlg,
  toggleText,
  ledState,                  \* the sketch's variable behind the LED toggle
  titleBar,                  \* the text shown on the title bar
  backButton,                \* the Back button shown: "none", "normal" or "selected"
  buttons,                   \* the buttons shown in the display space
  calls,                     \* the calls made by the latest step, in order (observation only)
  enteredFrom                \* the table that held the Sub menu item executed most recently,
                             \* NULL if none was (observation only)

menuVars ==
  <<pc, running, currentMenuTable, buttonTypeOnTitleBar, inMenuCallbackFunction,
    toggleSelectNextStateFlg, toggleText, ledState, titleBar, backButton, buttons, calls,
    enteredFrom>>

VARIABLES
  layout                     \* a table being laid out: its button count, the columns field
                             \* of its header and the rectangles computed so far

VARIABLES
  numberBox,                 \* the NUMBER_BOX of the sketch
  numberBoxRepeatCount,
  numberBoxShown,            \* what is drawn of the Number Box: its number and whether
                             \* its Up and Down buttons are highlighted
  press                      \* (observation only) the AutoRepeat events of the touch in
                             \* progress, the time since its Pressed event, the value
                             \* before it, and the step the latest pass of the loop
                             \* asked for and what its call returned

numberBoxVars == <<numberBox, numberBoxRepeatCount, numberBoxShown, press>>

VARIABLES
  keypad,                    \* a call of numericKeyPad: its arguments, valueStr, firstFlg,
                             \* what it has drawn and where it is
  selectionBox,              \* the SELECTION_BOX of the sketch and what is drawn of it
  slider,                    \* the SLIDER of the sketch and what is drawn of it
  screen,                    \* the BUTTONs of the sketch: which are drawn selected, and
                             \* what the checks of the latest pass saw and returned
  eeprom                     \* the bytes of the EEPROM, and what the sketch has saved in
                             \* it and read from it (observation only)

\* the menu state as one value, threaded through the calls a step makes
Machine ==
  [pc |-> pc, running |-> running, currentMenuTable |-> currentMenuTable,
   buttonTypeOnTitleBar |-> buttonTypeOnTitleBar,
   inMenuCallbackFunction |-> inMenuCallbackFunction,
   toggleSelectNextStateFlg |-> toggleSelectNextStateFlg, toggleText |-> toggleText,
   ledState |-> ledState, titleBar |-> titleBar, backButton |-> backButton,
   buttons |-> buttons, calls |-> <<>>]

\* the step ends with the menu state next
Becomes(next) ==
  \E m \in {next} :
    /\ pc' = m.pc
    /\ running' = m.running
    /\ currentMenuTable' = m.currentMenuTable
    /\ buttonTypeOnTitleBar' = m.buttonTypeOnTitleBar
    /\ inMenuCallbackFunction' = m.inMenuCallbackFunction
    /\ toggleSelectNextStateFlg' = m.toggleSelectNextStateFlg
    /\ toggleText' = m.toggleText
    /\ ledState' = m.ledState
    /\ titleBar' = m.titleBar
    /\ backButton' = m.backButton
    /\ buttons' = m.buttons
    /\ calls' = m.calls
    /\ enteredFrom' =
         IF \E i \in DOMAIN m.calls :
              /\ m.calls[i].op = "executeMenuItem"
              /\ TableItem(currentMenuTable, m.calls[i].idx).MenuItemType
                   = MENU_ITEM_TYPE_SUB_MENU
           THEN currentMenuTable
           ELSE enteredFrom

\* one entry of calls
Call(m, op, idx, flag, text) ==
  [m EXCEPT !.calls = Append(@, [op |-> op, idx |-> idx, flag |-> flag, text |-> text])]

\* the event left by getTouchEvents
Event(type, x, y) == [touchEventType |-> type, touchEventX |-> x, touchEventY |-> y]

\* drawTitleBarBackButton
drawTitleBarBackButton(m, buttonSelectedFlg) ==
  Call([m EXCEPT !.backButton = IF buttonSelectedFlg THEN "selected" ELSE "normal"],
       "drawTitleBarBackButton", 0, buttonSelectedFlg, "Back")

\* drawTitleBar(titleBarText, buttonType); the menus never ask for the Menu button
drawTitleBar(m, titleBarText, buttonType) ==
  LET drawn == Call([m EXCEPT !.buttonTypeOnTitleBar = buttonType,
                              !.titleBar = titleBarText,
                              !.backButton = "none"],
                    "drawTitleBar", buttonType, FALSE, titleBarText)
  IN IF buttonType = TITLE_BAR_BUTTON_TYPE_BACK
       THEN drawTitleBarBackButton(drawn, FALSE)
       ELSE drawn

drawTitleBarWithBackButton(m, titleBarText) ==
  drawTitleBar(m, titleBarText, TITLE_BAR_BUTTON_TYPE_BACK)

\* clearDisplaySpace
clearDisplaySpace(m) ==
  Call([m EXCEPT !.buttons = {}], "clearDisplaySpace", 0, FALSE, "")

\* two rectangles share a pixel
Overlap(a, b) ==
  /\ a.buttonX < b.buttonX + b.buttonWidth /\ b.buttonX < a.buttonX + a.buttonWidth
  /\ a.buttonY < b.buttonY + b.buttonHeight /\ b.buttonY < a.buttonY + a.buttonHeight

\* drawButton(labelText, showButtonTouchedFlg, buttonX, buttonY, buttonWidth, buttonHeight);
\* the label is the item text and, for a toggle, the state text after ":  "
drawButton(m, labelText, stateText, showButtonTouchedFlg, rect) ==
  [m EXCEPT !.buttons =
     {b \in @ : ~Overlap(b, rect)} \cup
     {[buttonX |-> rect.buttonX, buttonY |-> rect.buttonY,
       buttonWidth |-> rect.buttonWidth, buttonHeight |-> rect.buttonHeight,
       labelText |-> labelText, stateText |-> stateText,
       selected |-> showButtonTouchedFlg]}]

\* the sketch's callback of the LED toggle
menuToggleLEDCallback(m) ==
  LET next == IF m.toggleSelectNextStateFlg THEN ~m.ledState ELSE m.ledState
  IN Call([m EXCEPT !.ledState = next,
                    !.toggleText = IF next THEN "On" ELSE "Off"],
          "menuToggleLEDCallback", 0, m.toggleSelectNextStateFlg, "")

\* drawMenuItem_FlagLeftAsIs asks the toggle callback for the text without clearing
\* toggleSelectNextStateFlg first
drawMenuItem_FlagLeftAsIs(m, menuIdx, buttonSelectedFlg) ==
  LET item == TableItem(m.currentMenuTable, menuIdx)
      rect == getMenuButtonSizeAndLocation(m.currentMenuTable, menuIdx)
      entered == Call(m, "drawMenuItem", menuIdx, buttonSelectedFlg, item.MenuItemText)
  IN CASE item.MenuItemType \in {MENU_ITEM_TYPE_SUB_MENU, MENU_ITEM_TYPE_COMMAND} ->
            drawButton(entered, item.MenuItemText, "", buttonSelectedFlg, rect)
       [] item.MenuItemType = MENU_ITEM_TYPE_TOGGLE ->
            LET asked == menuToggleLEDCallback(entered)
            IN drawButton(asked, item.MenuItemText, asked.toggleText, buttonSelectedFlg, rect)
       [] OTHER -> entered

\* drawMenuItem(menuIdx, buttonSelectedFlg)
drawMenuItem(m, menuIdx, buttonSelectedFlg) ==
  LET item == TableItem(m.currentMenuTable, menuIdx)
      rect == getMenuButtonSizeAndLocation(m.currentMenuTable, menuIdx)
      entered == Call(m, "drawMenuItem", menuIdx, buttonSelectedFlg, item.MenuItemText)
  IN CASE item.MenuItemType \in {MENU_ITEM_TYPE_SUB_MENU, MENU_ITEM_TYPE_COMMAND} ->
            drawButton(entered, item.MenuItemText, "", buttonSelectedFlg, rect)
       [] item.MenuItemType = MENU_ITEM_TYPE_TOGGLE ->
            LET asked == menuToggleLEDCallback(
                           [entered EXCEPT !.toggleSelectNextStateFlg = FALSE])
            IN drawButton(asked, item.MenuItemText, asked.toggleText, buttonSelectedFlg, rect)
       [] OTHER -> entered

\* drawMenu, from menuIdx on
RECURSIVE drawMenuFrom(_, _)
drawMenuFrom(m, menuIdx) ==
  IF TableItem(m.currentMenuTable, menuIdx).MenuItemType = MENU_ITEM_TYPE_END_OF_MENU
    THEN m
    ELSE drawMenuFrom(drawMenuItem(m, menuIdx, FALSE), menuIdx + 1)

drawMenu(m) == drawMenuFrom(m, 1)

\* selectAndDrawMenu_BackOnSubMenusOnly draws the Back button for sub menus only
selectAndDrawMenu_BackOnSubMenusOnly(m, menu, drawMenuFlg) ==
  LET selected == Call([m EXCEPT !.currentMenuTable = menu],
                       "selectAndDrawMenu", 0, drawMenuFlg, menu)
      header == TableItem(menu, 0)
      titled ==
        IF header.MenuItemType = MENU_ITEM_TYPE_MAIN_MENU_HEADER
          THEN drawTitleBar(selected, header.MenuItemText, TITLE_BAR_BUTTON_TYPE_NONE)
          ELSE drawTitleBarWithBackButton(selected, header.MenuItemText)
  IN IF ~drawMenuFlg THEN selected ELSE drawMenu(clearDisplaySpace(titled))

\* selectAndDrawMenu(menu, drawMenuFlg)
selectAndDrawMenu(m, menu, drawMenuFlg) ==
  LET selected == Call([m EXCEPT !.currentMenuTable = menu],
                       "selectAndDrawMenu", 0, drawMenuFlg, menu)
      header == TableItem(menu, 0)
      titled ==
        IF /\ header.MenuItemType = MENU_ITEM_TYPE_MAIN_MENU_HEADER
           /\ header.MenuItemSubMenu # NULL
          THEN drawTitleBar(selected, header.MenuItemText, TITLE_BAR_BUTTON_TYPE_NONE)
          ELSE drawTitleBarWithBackButton(selected, header.MenuItemText)
  IN IF ~drawMenuFlg THEN selected ELSE drawMenu(clearDisplaySpace(titled))

\* findMenuButtonForTouchEvent, from menuIdx on
RECURSIVE findMenuButtonFrom(_, _, _)
findMenuButtonFrom(table, event, menuIdx) ==
  IF TableItem(table, menuIdx).MenuItemType = MENU_ITEM_TYPE_END_OF_MENU
    THEN 0
    ELSE LET rect == getMenuButtonSizeAndLocation(table, menuIdx)
         IN IF /\ event.touchEventX >= rect.buttonX
               /\ event.touchEventX <= rect.buttonX + rect.buttonWidth - 1
               /\ event.touchEventY >= rect.buttonY
               /\ event.touchEventY <= rect.buttonY + rect.buttonHeight - 1
              THEN menuIdx
              ELSE findMenuButtonFrom(table, event, menuIdx + 1)

findMenuButtonForTouchEvent(m, event) == findMenuButtonFrom(m.currentMenuTable, event, 1)

\* checkForBackButtonClicked: the state after the call and the value returned
checkForBackButtonClicked(m, event) ==
  LET rect == getBackButtonSizeAndLocation
      X1 == rect.buttonX
      Y1 == rect.buttonY
      X2 == X1 + rect.buttonWidth - 1
      Y2 == Y1 + rect.buttonHeight - 1
  IN IF m.buttonTypeOnTitleBar # TITLE_BAR_BUTTON_TYPE_BACK
          \/ event.touchEventType = TOUCH_NO_EVENT
       THEN [after |-> m, clicked |-> FALSE]
       ELSE IF checkForTouchEventInRect(event, TOUCH_PUSHED_EVENT, X1, Y1, X2, Y2)
         THEN [after |-> drawTitleBarBackButton(m, TRUE), clicked |-> FALSE]
         ELSE IF checkForTouchEventInRect(event, TOUCH_RELEASED_EVENT, X1, Y1, X2, Y2)
           THEN [after |-> drawTitleBarBackButton(m, FALSE), clicked |-> TRUE]
           ELSE [after |-> m, clicked |-> FALSE]

\* the part of a Command callback of the sketch that runs before its first poll or delay
commandGettsburgAddress(m) ==
  clearDisplaySpace(drawTitleBarWithBackButton(m, "Gettsburg Address"))

commandCountTo1(m) ==
  clearDisplaySpace(drawTitleBar(m, "Count To One", TITLE_BAR_BUTTON_TYPE_NONE))

\* the delay(350) of showCount
CountDelay == 350

\* the call (currentMenuTable[menuIdx].MenuItemFunction)() of a Command item
EnterCommand(m, function) ==
  LET entered == Call([m EXCEPT !.pc = "command", !.running = function],
                      function, 0, FALSE, "")
  IN IF function = "commandGettsburgAddress"
       THEN commandGettsburgAddress(entered)
       ELSE commandCountTo1(entered)

\* the callback the sketch registered with setInMenuCallbackFunction
InMenuCallback(m) ==
  IF m.inMenuCallbackFunction # NULL
    THEN Call(m, m.inMenuCallbackFunction, 0, FALSE, "")
    ELSE m

\* executeMenuItem_SubMenuNotDrawn selects the linked table of a sub menu item
\* without drawing it
executeMenuItem_SubMenuNotDrawn(m, menuIdx) ==
  LET item == TableItem(m.currentMenuTable, menuIdx)
      entered == Call(m, "executeMenuItem", menuIdx, FALSE, item.MenuItemText)
  IN CASE item.MenuItemType = MENU_ITEM_TYPE_SUB_MENU ->
            selectAndDrawMenu(entered, item.MenuItemSubMenu, FALSE)
       [] item.MenuItemType = MENU_ITEM_TYPE_COMMAND ->
            EnterCommand(entered, item.MenuItemFunction)
       [] item.MenuItemType = MENU_ITEM_TYPE_TOGGLE ->
            drawMenuItem(
              menuToggleLEDCallback([entered EXCEPT !.toggleSelectNextStateFlg = TRUE]),
              menuIdx, FALSE)
       [] OTHER -> entered

\* executeMenuItem(menuIdx), up to the point where a Command callback takes over
executeMenuItem(m, menuIdx) ==
  LET item == TableItem(m.currentMenuTable, menuIdx)
      entered == Call(m, "executeMenuItem", menuIdx, FALSE, item.MenuItemText)
  IN CASE item.MenuItemType = MENU_ITEM_TYPE_SUB_MENU ->
            selectAndDrawMenu(entered, item.MenuItemSubMenu, TRUE)
       [] item.MenuItemType = MENU_ITEM_TYPE_COMMAND ->
            EnterCommand(entered, item.MenuItemFunction)
       [] item.MenuItemType = MENU_ITEM_TYPE_TOGGLE ->
            drawMenuItem(
              menuToggleLEDCallback([entered EXCEPT !.toggleSelectNextStateFlg = TRUE]),
              menuIdx, FALSE)
       [] OTHER -> entered

\* CommandReturned_NoRedisplay goes on with the loop without drawing the menu again
CommandReturned_NoRedisplay(m) ==
  InMenuCallback([m EXCEPT !.pc = "displayAndExecuteMenu", !.running = NULL])

\* the rest of executeMenuItem and of the loop iteration once a Command callback returns
CommandReturned(m) ==
  InMenuCallback(
    selectAndDrawMenu([m EXCEPT !.pc = "displayAndExecuteMenu", !.running = NULL],
                      m.currentMenuTable, TRUE))

\* MenuButtonEvent_DispatchOnPush executes the item when it is pushed
MenuButtonEvent_DispatchOnPush(m, event) ==
  LET menuIdx == findMenuButtonForTouchEvent(m, event)
  IN IF menuIdx > 0
       THEN IF event.touchEventType = TOUCH_PUSHED_EVENT
              THEN executeMenuItem(drawMenuItem(m, menuIdx, TRUE), menuIdx)
              ELSE IF event.touchEventType = TOUCH_RELEASED_EVENT
                THEN executeMenuItem(drawMenuItem(m, menuIdx, FALSE), menuIdx)
                ELSE m
       ELSE m

\* "check if user has pressed one of the menu's buttons" of displayAndExecuteMenu
MenuButtonEvent(m, event) ==
  LET menuIdx == findMenuButtonForTouchEvent(m, event)
  IN IF menuIdx > 0
       THEN IF event.touchEventType = TOUCH_PUSHED_EVENT
              THEN drawMenuItem(m, menuIdx, TRUE)
              ELSE IF event.touchEventType = TOUCH_RELEASED_EVENT
                THEN executeMenuItem(drawMenuItem(m, menuIdx, FALSE), menuIdx)
                ELSE m
       ELSE m

\* BackClicked_ExitsFromSubMenu leaves the menus on Back whenever the header's fourth
\* field does not link the table to itself
BackClicked_ExitsFromSubMenu(m) ==
  LET header == TableItem(m.currentMenuTable, 0)
  IN IF header.MenuItemSubMenu \in {NULL, "mainMenu"}
       THEN [m EXCEPT !.pc = "loop"]
       ELSE m

\* BackClicked_ToEnteredFrom goes from a sub menu back to the table it was entered from
BackClicked_ToEnteredFrom(m) ==
  LET header == TableItem(m.currentMenuTable, 0)
  IN IF header.MenuItemType = MENU_ITEM_TYPE_SUB_MENU_HEADER
       THEN selectAndDrawMenu(m, enteredFrom, TRUE)
       ELSE IF header.MenuItemSubMenu = NULL
         THEN [m EXCEPT !.pc = "loop"]
         ELSE m

\* the branch of displayAndExecuteMenu taken when checkForBackButtonClicked returned
\* true; every menu table starts with a sub menu header or a main menu header
BackClicked(m) ==
  LET header == TableItem(m.currentMenuTable, 0)
  IN IF header.MenuItemType = MENU_ITEM_TYPE_SUB_MENU_HEADER
       THEN selectAndDrawMenu(m, header.MenuItemSubMenu, TRUE)
       ELSE IF header.MenuItemSubMenu = NULL
         THEN [m EXCEPT !.pc = "loop"]
         ELSE m

\* MenuLoopBody_CallbackAfterBack runs the in-menu callback at the end of every
\* iteration that stays in the menus
MenuLoopBody_CallbackAfterBack(m, event) ==
  IF event.touchEventType # TOUCH_NO_EVENT
    THEN LET back == checkForBackButtonClicked(m, event)
             handled == IF back.clicked THEN BackClicked(back.after)
                                        ELSE MenuButtonEvent(back.after, event)
         IN IF handled.pc = "displayAndExecuteMenu" THEN InMenuCallback(handled) ELSE handled
    ELSE InMenuCallback(m)

\* one iteration of the while loop of displayAndExecuteMenu, after getTouchEvents
MenuLoopBody(m, event) ==
  IF event.touchEventType # TOUCH_NO_EVENT
    THEN LET back == checkForBackButtonClicked(m, event)
         IN IF back.clicked
              THEN BackClicked(back.after)
              ELSE LET handled == MenuButtonEvent(back.after, event)
                   IN IF handled.pc = "command" THEN handled ELSE InMenuCallback(handled)
    ELSE InMenuCallback(m)

\* ---------------------------------------------------------------------------
\*              History of the touch cycle (observation only)
\* ---------------------------------------------------------------------------
\* hist records what an observer of the polls has seen; the program never reads it.
\*   prevState    touchState before the most recent poll
\*   stretch      ms since the most recent poll that sampled the opposite of the
\*                present raw sample (touched / untouched): the longest time the
\*                screen can have kept its present state, counted up to the
\*                debounce period
\*   sinceDown    ms from the poll that sampled the touch-down (left
\*                WAITING_FOR_TOUCH_DOWN_STATE) to the most recent poll of that
\*                cycle, counted up to the debounce period
\*   sincePressed ms since the poll that emitted Pressed, while the touch is held
\*   repeats      AutoRepeat events emitted since that Pressed
\*   late         ms by which the polls that emitted those AutoRepeat events came
\*                after their deadlines, in total
\*   sinceRelease ms from the poll that detected the release (entered
\*                CONFIRM_TOUCH_UP_STATE) to the most recent poll that started in
\*                that state, counted up to the debounce period
\*   pressedX/Y   the coordinates the Pressed event of the cycle carried
\*   downX/Y      the coordinates sampled at the touch-down poll
\*   cycle        the events other than None since the latest Pressed event, that
\*                event included, in the order they were emitted
\*   timer        ms since touchEventStartTime was assigned last, counted up to the
\*                auto-repeat delay

UpTo(v, cap) == IF v > cap THEN cap ELSE v

HeldStates == {WAITING_FOR_TOUCH_UP_STATE, WAITING_FOR_TOUCH_UP_AFTER_AUTO_REPEAT_STATE}

HistInit ==
  [prevState |-> WAITING_FOR_TOUCH_DOWN_STATE, stretch |-> 0, sinceDown |-> 0, sincePressed |-> 0, repeats |-> 0, late |-> 0,
   sinceRelease |-> 0, pressedX |-> 0, pressedY |-> 0, downX |-> 0, downY |-> 0,
   cycle |-> <<>>, timer |-> 0]

\* the history after a poll made dt ms after the previous one, which sampled s
HistAfterPoll(dt, s) ==
  LET pushed == touchEventType' = TOUCH_PUSHED_EVENT
      repeat == touchEventType' = TOUCH_REPEAT_EVENT
      down == touchState = WAITING_FOR_TOUCH_DOWN_STATE
              /\ touchState' = CONFIRM_TOUCH_DOWN_STATE
      inCycle == touchState # WAITING_FOR_TOUCH_DOWN_STATE
      held == touchState' \in HeldStates
      period == IF hist.repeats = 0 THEN TOUCH_AUTO_REPEAT_DELAY
                                    ELSE TOUCH_AUTO_REPEAT_RATE
      sinceTimer == hist.sincePressed + dt
                    - (IF hist.repeats = 0 THEN 0
                       ELSE TOUCH_AUTO_REPEAT_DELAY
                            + (hist.repeats - 1) * TOUCH_AUTO_REPEAT_RATE + hist.late)
  IN [prevState |-> touchState,
      stretch |-> IF s.touched = sample.touched
                    THEN UpTo(hist.stretch + dt, TOUCH_DEBOUNCE_PERIOD)
                    ELSE UpTo(dt, TOUCH_DEBOUNCE_PERIOD),
      sinceDown |-> IF down \/ ~inCycle THEN 0
                    ELSE UpTo(hist.sinceDown + dt, TOUCH_DEBOUNCE_PERIOD),
      sincePressed |-> IF pushed \/ ~held THEN 0 ELSE hist.sincePressed + dt,
      repeats |-> IF pushed \/ ~held THEN 0
                  ELSE IF repeat THEN hist.repeats + 1 ELSE hist.repeats,
      late |-> IF pushed \/ ~held THEN 0
               ELSE IF repeat THEN hist.late + (sinceTimer - period) ELSE hist.late,
      sinceRelease |-> IF touchState = CONFIRM_TOUCH_UP_STATE
                         THEN UpTo(hist.sinceRelease + dt, TOUCH_DEBOUNCE_PERIOD)
                         ELSE 0,
      pressedX |-> IF pushed THEN touchEventX' ELSE hist.pressedX,
      pressedY |-> IF pushed THEN touchEventY' ELSE hist.pressedY,
      downX |-> IF down THEN s.x ELSE IF inCycle THEN hist.downX ELSE 0,
      downY |-> IF down THEN s.y ELSE IF inCycle THEN hist.downY ELSE 0,
      cycle |-> IF pushed THEN <<TOUCH_PUSHED_EVENT>>
                ELSE IF touchEventType' # TOUCH_NO_EVENT
                  THEN Append(hist.cycle, touchEventType')
                ELSE hist.cycle,
      timer |-> IF \/ down
                   \/ pushed
                   \/ repeat
                   \/ touchState = CONFIRM_TOUCH_UP_STATE /\ s.touched
                  THEN 0
                  ELSE UpTo(hist.timer + dt, TOUCH_AUTO_REPEAT_DELAY)]

\* ---------------------------------------------------------------------------
\*          An application loop that only polls: loop { getTouchEvents(); }
\* ---------------------------------------------------------------------------

\* the menu fields of the global object ui after begin(), in a sketch that has
\* not yet drawn anything
MenuInit ==
  /\ pc = "loop"
  /\ running = NULL
  /\ currentMenuTable = NULL
  /\ buttonTypeOnTitleBar = TITLE_BAR_BUTTON_TYPE_NONE
  /\ inMenuCallbackFunction = NULL
  /\ toggleSelectNextStateFlg = FALSE
  /\ toggleText = NULL
  /\ ledState = FALSE
  /\ titleBar = ""
  /\ backButton = "none"
  /\ buttons = {}
  /\ calls = <<>>
  /\ enteredFrom = NULL

\* no table is being laid out
NoLayout == [buttonCount |-> 0, columnsField |-> 0, rects |-> <<>>]

\* no touch has been observed
NoPress == [repeats |-> 0, asked |-> 0, since |-> 0, startValue |-> 0, returned |-> FALSE]

\* no keypad, Selection Box or Slider is on the screen
NoOtherWidget ==
  /\ keypad = NULL
  /\ selectionBox = NULL
  /\ slider = NULL
  /\ screen = NULL
  /\ eeprom = NULL

\* no Number Box is on the screen
NoNumberBox ==
  /\ numberBox = NULL
  /\ numberBoxRepeatCount = 0
  /\ numberBoxShown = NULL
  /\ press = NoPress

\* begin() has been called and the screen has not been touched yet
TouchScreenStart ==
  /\ now = ULong(0)
  /\ elapsed = 0
  /\ sample = NotTouched
  /\ touchState = WAITING_FOR_TOUCH_DOWN_STATE
  /\ touchEventStartTime = ULong(0)
  /\ recordedTouchX = 0
  /\ recordedTouchY = 0
  /\ touchEventType = TOUCH_NO_EVENT
  /\ touchEventX = 0
  /\ touchEventY = 0
  /\ hist = HistInit

\* the sketch has called begin() and touched nothing yet
StartOfSketch == TouchScreenStart /\ MenuInit

TouchInit == StartOfSketch /\ layout = NoLayout /\ NoNumberBox /\ NoOtherWidget

\* a Command function of the sketch has been called and has drawn its screen:
\* "ui.drawTitleBarWithBackButton(titleBarText); ui.clearDisplaySpace();"
CommandScreen(function, titleBarText) ==
  /\ pc = "command"
  /\ running = function
  /\ buttonTypeOnTitleBar = TITLE_BAR_BUTTON_TYPE_BACK
  /\ titleBar = titleBarText
  /\ backButton = "normal"
  /\ buttons = {}
  /\ currentMenuTable = NULL
  /\ inMenuCallbackFunction = NULL
  /\ toggleSelectNextStateFlg = FALSE
  /\ toggleText = NULL
  /\ ledState = FALSE
  /\ calls = <<>>
  /\ enteredFrom = NULL


\* one poll: millis() has advanced by dt and the sensor returns s
Poll(dt, s) ==
  /\ elapsed + dt <= MaxTime
  /\ elapsed' = elapsed + dt
  /\ now' = AddULong(now, dt)
  /\ sample' = s
  /\ getTouchEvents(now', s)
  /\ hist' = HistAfterPoll(dt, s)
  /\ UNCHANGED <<menuVars, layout, numberBoxVars, screen, keypad, selectionBox, slider, eeprom>>

TouchPoll == \E dt \in PollSteps, s \in TwoPointSamples : Poll(dt, s)

\* setOrientation(lcdOrientation) with the orientation that begin() was given: the
\* sketch may call it at any time, between two polls; touchScreenSetOrientation sets
\* touchState and leaves the timer, the recorded coordinates and the latest event
SetOrientation ==
  /\ touchState' = WAITING_FOR_TOUCH_DOWN_STATE
  /\ UNCHANGED <<now, elapsed, sample, touchEventStartTime, recordedTouchX, recordedTouchY,
                 touchEventType, touchEventX, touchEventY, hist, menuVars, layout,
                 numberBoxVars, screen, keypad, selectionBox, slider, eeprom>>

vars ==
  <<now, elapsed, sample, touchState, touchEventStartTime, recordedTouchX, recordedTouchY,
    touchEventType, touchEventX, touchEventY, hist,
    pc, running, currentMenuTable, buttonTypeOnTitleBar, inMenuCallbackFunction,
    toggleSelectNextStateFlg, toggleText, ledState, titleBar, backButton, buttons, calls,
    enteredFrom, layout, numberBox, numberBoxRepeatCount, numberBoxShown, press,
    keypad, selectionBox, slider, screen, eeprom>>

TouchNext == TouchPoll

TouchSpec == TouchInit /\ [][TouchNext]_vars

\* a loop that polls and, between two polls, may set the orientation again
ReorientNext == TouchPoll \/ SetOrientation

ReorientSpec == TouchInit /\ [][ReorientNext]_vars

\* the same loop in a sketch that has been running, untouched, for nearly 2^32 ms:
\* millis() is WrapLead ms before it wraps around to 0
WrapLead == 60
WrapInit ==
  /\ now = <<HalfWord - 1, HalfWord - WrapLead>>
  /\ elapsed = 0
  /\ sample = NotTouched
  /\ touchState = WAITING_FOR_TOUCH_DOWN_STATE
  /\ touchEventStartTime = ULong(0)
  /\ recordedTouchX = 0
  /\ recordedTouchY = 0
  /\ touchEventType = TOUCH_NO_EVENT
  /\ touchEventX = 0
  /\ touchEventY = 0
  /\ hist = [HistInit EXCEPT !.timer = TOUCH_AUTO_REPEAT_DELAY]
  /\ MenuInit
  /\ layout = NoLayout
  /\ NoNumberBox
  /\ NoOtherWidget

WrapSpec == WrapInit /\ [][TouchNext]_vars

\* the same loop, polled for ever. The sketch polls every debounce period or every
\* auto-repeat period during the first LiveMaxTime ms, and at any time it may be busy
\* and poll LongPoll ms later, a quarter of the range of millis(): with these intervals
\* millis() returns finitely many values. elapsed counts the ms of the short intervals.
LiveMaxTime == 360
LongPoll == 16384 * HalfWord
LivePollSteps == {TOUCH_DEBOUNCE_PERIOD, TOUCH_AUTO_REPEAT_RATE, LongPoll}
LiveSamples == {NotTouched, Touched(PointA)}

LiveInit ==
  /\ now \in {ULong(0), <<HalfWord - 1, HalfWord - WrapLead>>}
  /\ elapsed = 0
  /\ sample = NotTouched
  /\ touchState = WAITING_FOR_TOUCH_DOWN_STATE
  /\ touchEventStartTime = ULong(0)
  /\ recordedTouchX = 0
  /\ recordedTouchY = 0
  /\ touchEventType = TOUCH_NO_EVENT
  /\ touchEventX = 0
  /\ touchEventY = 0
  /\ hist = HistInit
  /\ MenuInit
  /\ layout = NoLayout
  /\ NoNumberBox
  /\ NoOtherWidget

LivePoll(dt, s) ==
  /\ IF dt = LongPoll
       THEN elapsed' = elapsed
       ELSE /\ elapsed + dt <= LiveMaxTime
            /\ elapsed' = elapsed + dt
  /\ now' = AddULong(now, dt)
  /\ sample' = s
  /\ getTouchEvents(now', s)
  /\ UNCHANGED <<hist, menuVars, layout, numberBoxVars, screen, keypad, selectionBox, slider,
                 eeprom>>

LiveNext == \E dt \in LivePollSteps, s \in LiveSamples : LivePoll(dt, s)

\* loop() is called again and again: the sketch never stops polling
LiveSpec == LiveInit /\ [][LiveNext]_vars /\ WF_vars(LiveNext)


\* ---------------------------------------------------------------------------
\*        A sketch whose loop() calls displayAndExecuteMenu on a main menu
\* ---------------------------------------------------------------------------

\* the time one pass of a polling loop takes when the screen is being watched, a seventh
\* of the delay of showCount, and the time of a pass that comes a long hold later
MenuPoll == CountDelay \div 7
MenuPollSteps == {MenuPoll, TOUCH_AUTO_REPEAT_DELAY}

\* millis() has advanced by dt and getTouchEvents runs with the sensor returning s
TimedPoll(dt, s) ==
  /\ elapsed + dt <= MaxTime
  /\ elapsed' = elapsed + dt
  /\ now' = AddULong(now, dt)
  /\ sample' = s
  /\ getTouchEvents(now', s)
  /\ UNCHANGED <<hist, layout, numberBoxVars, screen, keypad, selectionBox, slider, eeprom>>

\* the event the poll of this step has left
PolledEvent == Event(touchEventType', touchEventX', touchEventY')

\* the end of a pass of the loop of a Command function:
\* "if (ui.checkForBackButtonClicked()) { ...; return; }"
ReturnOnBackButton ==
  LET back == checkForBackButtonClicked(Machine, PolledEvent)
  IN IF back.clicked
       THEN Becomes([back.after EXCEPT !.pc = "returned", !.running = NULL])
       ELSE Becomes(back.after)

\* setup() registers or removes the callback run while a menu is shown
SetInMenuCallbackFunction(callbackFunction) ==
  /\ pc = "loop"
  /\ inMenuCallbackFunction # callbackFunction
  /\ Becomes([Machine EXCEPT !.inMenuCallbackFunction = callbackFunction])
  /\ UNCHANGED <<now, elapsed, sample, touchVars, hist, layout, numberBoxVars, screen, keypad, selectionBox, slider, eeprom>>

\* loop() calls displayAndExecuteMenu(menu): the menu is drawn and the while loop entered
DisplayAndExecuteMenu(menu) ==
  /\ pc = "loop"
  /\ Becomes(selectAndDrawMenu([Machine EXCEPT !.pc = "displayAndExecuteMenu"], menu, TRUE))
  /\ UNCHANGED <<now, elapsed, sample, touchVars, hist, layout, numberBoxVars, screen, keypad, selectionBox, slider, eeprom>>

\* one iteration of the while loop of displayAndExecuteMenu
MenuLoop(dt, s) ==
  /\ pc = "displayAndExecuteMenu"
  /\ TimedPoll(dt, s)
  /\ Becomes(MenuLoopBody(Machine, PolledEvent))

\* one iteration of the while loop of commandGettsburgAddress; when Back is clicked the
\* callback returns and executeMenuItem and the loop iteration that called it finish
GettsburgLoop(dt, s) ==
  /\ pc = "command"
  /\ running = "commandGettsburgAddress"
  /\ TimedPoll(dt, s)
  /\ LET back == checkForBackButtonClicked(Machine, PolledEvent)
     IN IF back.clicked
          THEN Becomes(CommandReturned(back.after))
          ELSE Becomes(back.after)

\* commandCountTo1 shows the count for the time of its delay and returns
CountTo1Returns ==
  /\ pc = "command"
  /\ running = "commandCountTo1"
  /\ elapsed + CountDelay <= MaxTime
  /\ elapsed' = elapsed + CountDelay
  /\ now' = AddULong(now, CountDelay)
  /\ Becomes(CommandReturned(Machine))
  /\ UNCHANGED <<sample, touchVars, hist, layout, numberBoxVars, screen, keypad, selectionBox, slider, eeprom>>

\* the screen of commandGettsburgAddress has the Back button and nothing else to touch
TextScreenSamples == {NotTouched, Touched(PointBack), Touched(PointA)}

Init == TouchInit

Next ==
  \/ \E callbackFunction \in {NULL, "inMenuCallback"} :
       SetInMenuCallbackFunction(callbackFunction)
  \/ \E menu \in MainMenus : DisplayAndExecuteMenu(menu)
  \/ \E dt \in MenuPollSteps, s \in Samples : MenuLoop(dt, s)
  \/ \E dt \in MenuPollSteps, s \in TextScreenSamples : GettsburgLoop(dt, s)
  \/ CountTo1Returns

Spec == Init /\ [][Next]_vars

\* a Command callback that shows its screen until the screen is touched: its loop calls
\* getTouchEvents() and returns when
\* checkForTouchEventInRect(TOUCH_PUSHED_EVENT, 0, 0, lcdWidth-1, lcdHeight-1) is true;
\* the finger is still down when the menu loop resumes
TouchToContinueLoop(dt, s) ==
  /\ pc = "command"
  /\ running = "commandGettsburgAddress"
  /\ TimedPoll(dt, s)
  /\ IF checkForTouchEventInRect(PolledEvent, TOUCH_PUSHED_EVENT,
                                 0, 0, lcdWidth - 1, lcdHeight - 1)
       THEN Becomes(CommandReturned(Machine))
       ELSE Becomes(Machine)

TouchToContinueNext ==
  \/ \E callbackFunction \in {NULL, "inMenuCallback"} :
       SetInMenuCallbackFunction(callbackFunction)
  \/ \E menu \in MainMenus : DisplayAndExecuteMenu(menu)
  \/ \E dt \in MenuPollSteps, s \in Samples : MenuLoop(dt, s)
  \/ \E dt \in MenuPollSteps, s \in TextScreenSamples : TouchToContinueLoop(dt, s)
  \/ CountTo1Returns

TouchToContinueSpec == Init /\ [][TouchToContinueNext]_vars


\* ---------------------------------------------------------------------------
\*     The buttons of a table of any length, laid out one after the other by
\*     getMenuButtonSizeAndLocation as drawMenu and findMenuButtonForTouchEvent do
\* ---------------------------------------------------------------------------

\* the longest table laid out
MaxButtons == 40

\* the values the third field of a header may hold: MENU_COLUMNS_1 to MENU_COLUMNS_4,
\* and one value below and one above them
ColumnsFields == 0 .. 5

LayoutInit ==
  /\ StartOfSketch
  /\ NoNumberBox
  /\ NoOtherWidget
  /\ \E buttonCount \in 1 .. MaxButtons, columnsField \in ColumnsFields :
       layout = [buttonCount |-> buttonCount, columnsField |-> columnsField, rects |-> <<>>]

\* getMenuButtonSizeAndLocation for the next button of the table
LayoutNextButton ==
  /\ Len(layout.rects) < layout.buttonCount
  /\ layout' = [layout EXCEPT !.rects =
                  Append(@, MenuButtonLayout(layout.buttonCount, layout.columnsField,
                                             Len(layout.rects) + 1))]
  /\ UNCHANGED <<now, elapsed, sample, touchVars, hist, menuVars, numberBoxVars, screen, keypad, selectionBox, slider, eeprom>>

LayoutNext == LayoutNextButton

LayoutSpec == LayoutInit /\ [][LayoutNext]_vars


\* ---------------------------------------------------------------------------
\*          A screen with a Number Box: getTouchEvents, then
\*          checkForNumberBoxTouched, in a loop
\* ---------------------------------------------------------------------------

\* the range of an int of the 32 bit processors the library requires
INT_MAX == 2147483647
INT_MIN == -INT_MAX - 1

\* the outcomes of the int addition a + b. An overflow of a signed int is undefined: the
\* sum wraps around as the adder of the processor does, or it is carried on without
\* wrapping and lies beyond the end of the range (INT_MAX and INT_MIN stand for it)
IntSum(a, b) ==
  IF b > 0 /\ a > INT_MAX - b THEN {(a - INT_MAX - 1) + (b - INT_MAX - 1), INT_MAX}
  ELSE IF b < 0 /\ a < INT_MIN - b THEN {(a + INT_MAX + 1) + (b + INT_MAX + 1), INT_MIN}
  ELSE {a + b}

\* the points where a finger rests on the Up button and on the Down button
PointUp == [x |-> 80, y |-> 116]
PointDown == [x |-> 230, y |-> 116]
NumberBoxSamples == {NotTouched, Touched(PointUp), Touched(PointDown), Touched(PointB)}

\* getNumberBoxCoordinates
getNumberBoxCoordinates(box) ==
  LET widthOfButton == CDiv(box.height * 16, 10)
      narrowed == IF widthOfButton > CDiv(box.width * 4, 10)
                    THEN CDiv(box.width * 4, 10) ELSE widthOfButton
      buttonWidth == IF narrowed < 30 THEN 30 ELSE narrowed
      widthOfNumber == box.width - (2 * buttonWidth)
      numberWidth == IF widthOfNumber < 30 THEN 30 ELSE widthOfNumber
      upButtonX == box.centerX - CDiv(box.width, 2)
      numberX == upButtonX + buttonWidth
  IN [downButtonX |-> numberX + numberWidth, numberX |-> numberX, upButtonX |-> upButtonX,
      topY |-> box.centerY - CDiv(box.height, 2), buttonWidth |-> buttonWidth,
      numberWidth |-> numberWidth, height |-> box.height]

\* the Number Box with the value set and the number drawn again
NumberStored(b, newValue) ==
  IF b.numberBox.value = newValue
    THEN b
    ELSE [b EXCEPT !.numberBox.value = newValue, !.numberBoxShown.number = newValue]

\* updateNumberBoxNumber(numberBox, stepAmount): the Number Boxes it can leave
updateNumberBoxNumber(b, stepAmount) ==
  IF stepAmount > 0
    THEN {NumberStored(b, IF newValue > b.numberBox.maximumValue
                            THEN b.numberBox.maximumValue ELSE newValue) :
            newValue \in IntSum(b.numberBox.value, stepAmount)}
  ELSE IF stepAmount < 0
    THEN {NumberStored(b, IF newValue < b.numberBox.minimumValue
                            THEN b.numberBox.minimumValue ELSE newValue) :
            newValue \in IntSum(b.numberBox.value, stepAmount)}
  ELSE {b}

\* (mutant) the step grows every 8 repeats
StepSize_GrowsEvery8(stepAmount, repeatCount) ==
  stepAmount * (CDiv(repeatCount, 8) + 1)

\* numberBox.stepAmount * ((numberBoxRepeatCount / 16) + 1)
StepSize(stepAmount, repeatCount) ==
  stepAmount * (CDiv(repeatCount, 16) + 1)

\* updateNumberBoxNumber called for a step up (direction 1) or down (direction -1)
Stepped(b, direction, stepSize) ==
  {[c EXCEPT !.asked = direction * stepSize] :
     c \in updateNumberBoxNumber(b, direction * stepSize)}

\* checkForNumberBoxTouched(numberBox) for the event the latest getTouchEvents left:
\* b holds the Number Box, numberBoxRepeatCount and what is drawn; the results are b
\* as the call can leave it, with the value returned and the step asked for
checkForNumberBoxTouched(b, event) ==
  LET at == getNumberBoxCoordinates(b.numberBox)
      Y1 == at.topY
      Y2 == at.topY + at.height - 1
      InDown(eventType) ==
        checkForTouchEventInRect(event, eventType, at.downButtonX, Y1,
                                 at.downButtonX + at.buttonWidth - 1, Y2)
      InUp(eventType) ==
        checkForTouchEventInRect(event, eventType, at.upButtonX, Y1,
                                 at.upButtonX + at.buttonWidth - 1, Y2)
      counted == [b EXCEPT !.numberBoxRepeatCount = @ + 1]
  IN IF event.touchEventType = TOUCH_NO_EVENT THEN {b}
     ELSE IF InDown(TOUCH_PUSHED_EVENT)
       THEN {[c EXCEPT !.numberBoxRepeatCount = 0, !.returned = TRUE] :
               c \in Stepped([b EXCEPT !.numberBoxShown.downButton = TRUE], -1,
                             b.numberBox.stepAmount)}
     ELSE IF InDown(TOUCH_REPEAT_EVENT)
       THEN {[c EXCEPT !.returned = TRUE] :
               c \in Stepped(counted, -1,
                             StepSize(b.numberBox.stepAmount, counted.numberBoxRepeatCount))}
     ELSE IF InDown(TOUCH_RELEASED_EVENT)
       THEN {[b EXCEPT !.numberBoxShown.downButton = FALSE]}
     ELSE IF InUp(TOUCH_PUSHED_EVENT)
       THEN {[c EXCEPT !.numberBoxRepeatCount = 0, !.returned = TRUE] :
               c \in Stepped([b EXCEPT !.numberBoxShown.upButton = TRUE], 1,
                             b.numberBox.stepAmount)}
     ELSE IF InUp(TOUCH_REPEAT_EVENT)
       THEN {[c EXCEPT !.returned = TRUE] :
               c \in Stepped(counted, 1,
                             StepSize(b.numberBox.stepAmount, counted.numberBoxRepeatCount))}
     ELSE IF InUp(TOUCH_RELEASED_EVENT)
       THEN {[b EXCEPT !.numberBoxShown.upButton = FALSE]}
     ELSE {b}

\* drawNumberBox(numberBox)
drawNumberBox(box) == [number |-> box.value, upButton |-> FALSE, downButton |-> FALSE]

\* the Number Box of the README's example at the center of the display space, and a
\* Number Box that counts in tens up to the largest int
NumberBoxPlace ==
  [centerX |-> displaySpaceLeftX + CDiv(displaySpaceWidth, 2),
   centerY |-> displaySpaceTopY + CDiv(displaySpaceHeight, 2) - 20,
   width |-> 200, height |-> 35]
NumberBoxOf(value, minimumValue, maximumValue, stepAmount) ==
  [value |-> value, minimumValue |-> minimumValue, maximumValue |-> maximumValue,
   stepAmount |-> stepAmount, centerX |-> NumberBoxPlace.centerX,
   centerY |-> NumberBoxPlace.centerY, width |-> NumberBoxPlace.width,
   height |-> NumberBoxPlace.height]
NumberBoxes ==
  {NumberBoxOf(0, -200, 200, 2), NumberBoxOf(191, -200, 200, 2),
   NumberBoxOf(-191, -200, 200, 2), NumberBoxOf(INT_MAX - 15, 0, INT_MAX, 10)}

\* the longest time the Number Box screen is watched
NumberBoxMaxTime == 3200

\* a pass of the loop comes an auto repeat period after the last
NumberBoxPollSteps == {TOUCH_AUTO_REPEAT_RATE}

\* the sketch has drawn a Number Box; numberBoxRepeatCount is what an earlier use left
NumberBoxInit ==
  /\ StartOfSketch
  /\ layout = NoLayout
  /\ NoOtherWidget
  /\ numberBox \in NumberBoxes
  /\ numberBoxRepeatCount \in {0, 33}
  /\ numberBoxShown = drawNumberBox(numberBox)
  /\ press = NoPress

\* one pass of the loop: getTouchEvents(), then checkForNumberBoxTouched(numberBox)
NumberBoxLoop(dt, s) ==
  /\ elapsed + dt <= NumberBoxMaxTime
  /\ elapsed' = elapsed + dt
  /\ now' = AddULong(now, dt)
  /\ sample' = s
  /\ getTouchEvents(now', s)
  /\ \E c \in checkForNumberBoxTouched(
                [numberBox |-> numberBox, numberBoxRepeatCount |-> numberBoxRepeatCount,
                 numberBoxShown |-> numberBoxShown, returned |-> FALSE, asked |-> 0],
                PolledEvent) :
       /\ numberBox' = c.numberBox
       /\ numberBoxRepeatCount' = c.numberBoxRepeatCount
       /\ numberBoxShown' = c.numberBoxShown
       /\ press' = [repeats |-> IF touchEventType' = TOUCH_PUSHED_EVENT THEN 0
                                ELSE IF touchEventType' = TOUCH_REPEAT_EVENT
                                  THEN press.repeats + 1
                                ELSE press.repeats,
                    asked |-> c.asked,
                    since |-> IF touchEventType' = TOUCH_PUSHED_EVENT
                                   \/ touchState' \notin HeldStates THEN 0
                              ELSE press.since + dt,
                    startValue |-> IF touchEventType' = TOUCH_PUSHED_EVENT
                                     THEN numberBox.value
                                   ELSE IF touchState' \notin HeldStates THEN 0
                                   ELSE press.startValue,
                    returned |-> c.returned]
  /\ UNCHANGED <<hist, menuVars, layout, screen, keypad, selectionBox, slider, eeprom>>

\* the finger stays on the point it has come down on until it is lifted
RestingSamples == {s \in NumberBoxSamples : (s.touched /\ sample.touched) => s = sample}

NumberBoxNext == \E dt \in NumberBoxPollSteps, s \in RestingSamples : NumberBoxLoop(dt, s)

NumberBoxSpec == NumberBoxInit /\ [][NumberBoxNext]_vars


\* ---------------------------------------------------------------------------
\*                    A sketch that calls numericKeyPad
\* ---------------------------------------------------------------------------

DIGIT_BUTTONS_WIDTH == 56
DIGIT_BUTTONS_HEIGHT == 44
DIGIT_BUTTONS_HORZ_SPACING == DIGIT_BUTTONS_WIDTH + 7
DIGIT_BUTTONS_VERT_SPACING == DIGIT_BUTTONS_HEIGHT + 7
DIGIT_BUTTONS_X == 35
DIGIT_BUTTONS_Y == 61
OTHER_BUTTONS_X == 254
OTHER_BUTTONS_Y == 111
OTHER_BUTTONS_WIDTH == 80
OTHER_BUTTONS_HEIGHT == DIGIT_BUTTONS_HEIGHT
OTHER_BUTTONS_SPACING == DIGIT_BUTTONS_VERT_SPACING
MAX_CHARACTERS == 12
OutOfRangeDelay == 1500
OutOfRangeTitle == ">>> NUMBER OUT OF RANGE <<<"

\* a BUTTON: a label and a rectangle given by its center and its size
Button(labelText, centerX, centerY, width, height) ==
  [labelText |-> labelText, centerX |-> centerX, centerY |-> centerY,
   width |-> width, height |-> height]

DigitButton(labelText, col, row) ==
  Button(labelText, DIGIT_BUTTONS_X + (col * DIGIT_BUTTONS_HORZ_SPACING),
         DIGIT_BUTTONS_Y + (row * DIGIT_BUTTONS_VERT_SPACING),
         DIGIT_BUTTONS_WIDTH, DIGIT_BUTTONS_HEIGHT)

OtherButton(labelText, place) ==
  Button(labelText, OTHER_BUTTONS_X, OTHER_BUTTONS_Y + place * OTHER_BUTTONS_SPACING,
         OTHER_BUTTONS_WIDTH, OTHER_BUTTONS_HEIGHT)

\* the buttons of the keypad for a float (with ".") and for an int, in the order in
\* which the loop checks them
DigitButtons1To9 ==
  <<DigitButton("1", 0, 2), DigitButton("2", 1, 2), DigitButton("3", 2, 2),
    DigitButton("4", 0, 1), DigitButton("5", 1, 1), DigitButton("6", 2, 1),
    DigitButton("7", 0, 0), DigitButton("8", 1, 0), DigitButton("9", 2, 0)>>
DelOKCancelButtons == <<OtherButton("<", 2), OtherButton("OK", 0), OtherButton("Cancel", 1)>>
FloatKeypadButtons ==
  <<DigitButton("0", 0, 3)>> \o DigitButtons1To9
  \o <<DigitButton(".", 1, 3), DigitButton("+/-", 2, 3)>> \o DelOKCancelButtons
IntKeypadButtons ==
  <<DigitButton("0", 1, 3)>> \o DigitButtons1To9 \o <<DigitButton("+/-", 2, 3)>>
  \o DelOKCancelButtons
KeypadButtons(kind) == IF kind = "float" THEN FloatKeypadButtons ELSE IntKeypadButtons

DigitChars == <<"0", "1", "2", "3", "4", "5", "6", "7", "8", "9">>
IsDigit(c) == \E d \in 1 .. 10 : DigitChars[d] = c
DigitOf(c) == (CHOOSE d \in 1 .. 10 : DigitChars[d] = c) - 1

\* ---- single precision arithmetic: a float is man * 2^exp, negated if neg, with
\* ---- 2^23 <= man < 2^24, or man = 0 for zero; every result is rounded to the nearest
\* ---- float, a tie to the even mantissa

RECURSIVE Pow2(_)
Pow2(n) == IF n = 0 THEN 1 ELSE 2 * Pow2(n - 1)

\* the smallest mantissa of 24 bits, and the first number that needs 25
ManMin == Pow2(23)
ManMax == Pow2(24)

FloatZero == [neg |-> FALSE, man |-> 0, exp |-> 0]

\* q with rest/unit more: the nearest whole number, a tie to the even one
NearestEven(q, rest, unit) ==
  IF rest > unit - rest \/ (rest = unit - rest /\ q % 2 = 1) THEN q + 1 ELSE q

\* the float of mantissa man, which rounding may have taken up to 2^24
Carried(neg, man, exp) ==
  IF man = ManMax THEN [neg |-> neg, man |-> ManMin, exp |-> exp + 1]
  ELSE [neg |-> neg, man |-> man, exp |-> exp]

RECURSIVE ShiftedUp(_, _, _)
ShiftedUp(neg, m, e) ==
  IF m >= ManMin THEN [neg |-> neg, man |-> m, exp |-> e]
  ELSE ShiftedUp(neg, 2 * m, e - 1)

\* the bits that m has beyond 24
RECURSIVE BitsOver(_)
BitsOver(m) == IF m < ManMax THEN 0 ELSE 1 + BitsOver(m \div 2)

\* the conversion of an int to float
IntToFloat(n) ==
  IF n = 0 THEN FloatZero
  ELSE IF n = INT_MIN THEN [neg |-> TRUE, man |-> ManMin, exp |-> 8]
  ELSE LET m == IF n < 0 THEN -n ELSE n
           k == BitsOver(m)
       IN IF k = 0 THEN ShiftedUp(n < 0, m, 0)
          ELSE Carried(n < 0, NearestEven(m \div Pow2(k), m % Pow2(k), Pow2(k)), k)

\* n more bits of the quotient q of a long division by d that has left the rest r
RECURSIVE DivBits(_, _, _, _)
DivBits(q, r, d, n) ==
  IF n = 0 THEN [q |-> q, r |-> r]
  ELSE IF 2 * r >= d THEN DivBits(2 * q + 1, 2 * r - d, d, n - 1)
  ELSE DivBits(2 * q, 2 * r, d, n - 1)

\* x / y in float; y is not zero
FloatDiv(x, y) ==
  IF x.man = 0 THEN FloatZero
  ELSE LET doubled == x.man < y.man
           n == IF doubled THEN 2 * x.man ELSE x.man
           qr == DivBits(1, n - y.man, y.man, 23)
       IN Carried(x.neg # y.neg, NearestEven(qr.q, qr.r, y.man),
                  x.exp - y.exp - 23 - (IF doubled THEN 1 ELSE 0))

\* x * y in float: the product of the mantissas has 47 or 48 bits and is summed from
\* the products of their halves of 12 bits
FloatMul(x, y) ==
  IF x.man = 0 \/ y.man = 0 THEN FloatZero
  ELSE LET a == x.man \div 4096
           b == x.man % 4096
           c == y.man \div 4096
           d == y.man % 4096
           mid == a * d + b * c
           low == b * d + (mid % 4096) * 4096
           hi == a * c + (mid \div 4096) + (low \div ManMax)
           lo == low % ManMax
       IN IF hi >= ManMin
            THEN Carried(x.neg # y.neg, NearestEven(hi, lo, ManMax), x.exp + y.exp + 24)
            ELSE Carried(x.neg # y.neg,
                         NearestEven(2 * hi + (lo \div ManMin), lo % ManMin, ManMin),
                         x.exp + y.exp + 23)

\* (int) (x + .5): the sum is made in double, where it is exact, and the conversion
\* drops the decimals; x is less than 2^31
PlusHalfToInt(x) ==
  IF x.man = 0 THEN 0
  ELSE IF x.exp >= 0
    THEN IF x.neg THEN 1 - x.man * Pow2(x.exp) ELSE x.man * Pow2(x.exp)
  ELSE IF -x.exp > 30 THEN 0
  ELSE LET unit == Pow2(-x.exp)
           half == unit \div 2
       IN IF ~x.neg THEN (x.man + half) \div unit
          ELSE IF x.man <= half THEN 0
          ELSE -((x.man - half) \div unit)

\* ---- decimal numbers: digits holds the digits of the whole part and, after them, the
\* ---- scale decimals; the number is negated if neg. An int and a float convert to
\* ---- double without loss, and a double holds the 12 characters of valueStr so
\* ---- closely that its conversions to int and to float are those of the decimal
\* ---- number itself

Decimal(neg, digits, scale) == [neg |-> neg, digits |-> digits, scale |-> scale]

Zeros(n) == [i \in 1 .. n |-> 0]

\* the digits of a natural number
RECURSIVE DigitValues(_)
DigitValues(n) == IF n < 10 THEN <<n>> ELSE DigitValues(n \div 10) \o <<n % 10>>

\* the digits of the number plus 1
PlusOne(digits) ==
  LET below == {i \in 1 .. Len(digits) : digits[i] # 9}
      last == CHOOSE i \in below : \A j \in below : j <= i
  IN IF below = {} THEN <<1>> \o Zeros(Len(digits))
     ELSE [i \in 1 .. Len(digits) |->
             IF i < last THEN digits[i] ELSE IF i = last THEN digits[i] + 1 ELSE 0]

\* m^n
RECURSIVE Power(_, _)
Power(m, n) == IF n = 0 THEN 1 ELSE m * Power(m, n - 1)

\* a long whole number is held in limbs of four digits, the lowest first
Limb == Power(10, 4)

\* the limbs, from the i-th on, of m times the number, plus carry; Limb * m is an int
RECURSIVE LimbsTimes(_, _, _, _)
LimbsTimes(limbs, i, m, carry) ==
  IF i > Len(limbs) /\ carry = 0 THEN <<>>
  ELSE LET d == (IF i > Len(limbs) THEN 0 ELSE limbs[i] * m) + carry
       IN <<d % Limb>> \o LimbsTimes(limbs, i + 1, m, d \div Limb)

\* the limbs of m^n times the number, taken seven factors at a time; m is 2 or 5
RECURSIVE LimbsTimesPower(_, _, _)
LimbsTimesPower(limbs, m, n) ==
  IF n = 0 \/ limbs = <<>> THEN limbs
  ELSE IF n >= 7 THEN LimbsTimesPower(LimbsTimes(limbs, 1, Power(m, 7), 0), m, n - 7)
  ELSE LimbsTimes(limbs, 1, Power(m, n), 0)

\* the digits of the number in the limbs
DigitsOfLimbs(limbs) ==
  [i \in 1 .. 4 * Len(limbs) |->
     LET place == 4 * Len(limbs) - i
     IN (limbs[(place \div 4) + 1] \div Power(10, place % 4)) % 10]

\* the digits with zeros in front up to the length n
ZeroPadded(digits, n) == Zeros(n - Len(digits)) \o digits

RECURSIVE WithoutLeadingZeros(_)
WithoutLeadingZeros(digits) ==
  IF Len(digits) > 1 /\ digits[1] = 0
    THEN WithoutLeadingZeros(SubSeq(digits, 2, Len(digits)))
    ELSE digits

\* the conversion of an int to double
IntToDecimal(n) ==
  IF n >= 0 THEN Decimal(FALSE, DigitValues(n), 0)
  ELSE Decimal(TRUE, PlusOne(DigitValues(-(n + 1))), 0)

\* the conversion of a float to double: man * 2^exp, which is man * 5^-exp / 10^-exp
\* for an exp below 0
FloatToDecimal(f) ==
  LET man == <<f.man % Limb, f.man \div Limb>>
  IN IF f.exp >= 0
       THEN Decimal(f.neg, WithoutLeadingZeros(DigitsOfLimbs(LimbsTimesPower(man, 2, f.exp))), 0)
       ELSE Decimal(f.neg, WithoutLeadingZeros(DigitsOfLimbs(LimbsTimesPower(man, 5, -f.exp))),
                    -f.exp)

\* the value of an int or of a float as a double
ToDecimal(kind, value) == IF kind = "float" THEN FloatToDecimal(value) ELSE IntToDecimal(value)

\* the characters of the digits
CharsOf(digits) == [i \in 1 .. Len(digits) |-> DigitChars[digits[i] + 1]]

\* dtostrf(value, 0, 4, valueStr): the number rounded to four decimals, a tie to the
\* even digit
dtostrf(value) ==
  LET digits == ZeroPadded(value.digits, value.scale + 1)
      cut == value.scale - 4
      kept == IF cut > 0 THEN SubSeq(digits, 1, Len(digits) - cut) ELSE digits \o Zeros(-cut)
      rest == IF cut > 0 THEN SubSeq(digits, Len(digits) - cut + 1, Len(digits)) ELSE <<>>
      up == /\ rest # <<>>
            /\ \/ rest[1] > 5
               \/ /\ rest[1] = 5
                  /\ \/ \E i \in 2 .. Len(rest) : rest[i] # 0
                     \/ kept[Len(kept)] % 2 = 1
      rounded == IF up THEN PlusOne(kept) ELSE kept
  IN (IF value.neg THEN <<"-">> ELSE <<>>)
     \o CharsOf(WithoutLeadingZeros(SubSeq(rounded, 1, Len(rounded) - 4)))
     \o <<".">> \o CharsOf(SubSeq(rounded, Len(rounded) - 3, Len(rounded)))

\* "while(i > 1) { if (valueStr[i] != '0') break; valueStr[i] = 0; i--; }" with i the
\* index, from 0, of the last character
RECURSIVE StripZeros(_)
StripZeros(str) ==
  IF Len(str) - 1 > 1 /\ str[Len(str)] = "0"
    THEN StripZeros(SubSeq(str, 1, Len(str) - 1))
    ELSE str

\* the initial value as a string, cut to MAX_CHARACTERS, without trailing zeros and
\* without a trailing decimal point
InitialValueStr(value) ==
  LET whole == dtostrf(value)
      cut == IF Len(whole) > MAX_CHARACTERS THEN SubSeq(whole, 1, MAX_CHARACTERS) ELSE whole
      stripped == StripZeros(cut)
  IN IF Len(stripped) > 0 /\ stripped[Len(stripped)] = "."
       THEN SubSeq(stripped, 1, Len(stripped) - 1)
       ELSE stripped

\* the end of the run of digits of str that starts at index i (from 1)
RECURSIVE DigitsEnd(_, _)
DigitsEnd(str, i) ==
  IF i <= Len(str) /\ IsDigit(str[i]) THEN DigitsEnd(str, i + 1) ELSE i

\* the digits of str from index i to j - 1
DigitsIn(str, i, j) == [n \in 1 .. (j - i) |-> DigitOf(str[i + n - 1])]

\* atof(valueStr): an optional "-", digits, and decimals after a "."; the conversion
\* stops at the first character that cannot continue the number, and a string without
\* a digit reads as 0
atof(str) ==
  LET neg == Len(str) > 0 /\ str[1] = "-"
      first == IF neg THEN 2 ELSE 1
      wholeEnd == DigitsEnd(str, first)
      hasDot == wholeEnd <= Len(str) /\ str[wholeEnd] = "."
      fracEnd == IF hasDot THEN DigitsEnd(str, wholeEnd + 1) ELSE wholeEnd
      whole == DigitsIn(str, first, wholeEnd)
      decimals == IF hasDot THEN DigitsIn(str, wholeEnd + 1, fracEnd) ELSE <<>>
  IN IF Len(whole) + Len(decimals) = 0 THEN Decimal(FALSE, <<>>, 0)
     ELSE Decimal(neg, whole \o decimals, Len(decimals))

\* the whole number of the digits with acc before them: whole is the number up to
\* INT_MAX; big is 1 for INT_MAX + 1 and 2 for the numbers beyond it
RECURSIVE ValueOfDigits(_, _)
ValueOfDigits(digits, acc) ==
  IF digits = <<>> THEN acc
  ELSE LET rest == SubSeq(digits, 2, Len(digits))
       IN IF acc.big = 0 /\ acc.whole <= (INT_MAX - digits[1]) \div 10
            THEN ValueOfDigits(rest, [whole |-> acc.whole * 10 + digits[1], big |-> 0])
          ELSE IF acc.big = 0 /\ acc.whole = INT_MAX \div 10 /\ digits[1] = (INT_MAX % 10) + 1
            THEN ValueOfDigits(rest, [whole |-> INT_MAX, big |-> 1])
          ELSE ValueOfDigits(rest, [whole |-> INT_MAX, big |-> 2])

\* the conversion of a double to int drops the decimals; for a value beyond the ints
\* it is undefined, and the processors leave the nearest int or the smallest int
DecimalToInt(number) ==
  LET whole == ValueOfDigits(SubSeq(number.digits, 1, Len(number.digits) - number.scale),
                             [whole |-> 0, big |-> 0])
  IN IF whole.big = 0 THEN {IF number.neg THEN -whole.whole ELSE whole.whole}
     ELSE IF number.neg THEN {INT_MIN}
     ELSE {INT_MAX, INT_MIN}

\* ---- whole numbers below 2^48 in two parts: hi * 2^24 + lo

BigTimes(a, m, carry) ==
  [hi |-> a.hi * m + ((a.lo * m + carry) \div ManMax), lo |-> (a.lo * m + carry) % ManMax]
BigLess(a, b) == a.hi < b.hi \/ (a.hi = b.hi /\ a.lo < b.lo)
BigMinus(a, b) ==
  IF a.lo >= b.lo THEN [hi |-> a.hi - b.hi, lo |-> a.lo - b.lo]
  ELSE [hi |-> a.hi - b.hi - 1, lo |-> a.lo + ManMax - b.lo]

RECURSIVE BigOfDigits(_, _)
BigOfDigits(digits, acc) ==
  IF digits = <<>> THEN acc
  ELSE BigOfDigits(SubSeq(digits, 2, Len(digits)), BigTimes(acc, 10, digits[1]))

\* num / den as n / d * 2^e with d <= n < 2 * d
RECURSIVE BigNormalised(_, _, _)
BigNormalised(n, d, e) ==
  IF BigLess(n, d) THEN BigNormalised(BigTimes(n, 2, 0), d, e - 1)
  ELSE IF ~BigLess(n, BigTimes(d, 2, 0)) THEN BigNormalised(n, BigTimes(d, 2, 0), e + 1)
  ELSE [n |-> n, d |-> d, e |-> e]

\* n more bits of the quotient q of a long division by d that has left the rest r
RECURSIVE BigDivBits(_, _, _, _)
BigDivBits(q, r, d, n) ==
  IF n = 0 THEN [q |-> q, r |-> r]
  ELSE IF ~BigLess(BigTimes(r, 2, 0), d)
    THEN BigDivBits(2 * q + 1, BigMinus(BigTimes(r, 2, 0), d), d, n - 1)
  ELSE BigDivBits(2 * q, BigTimes(r, 2, 0), d, n - 1)

\* the conversion of a double to float: the nearest float, a tie to the even mantissa
DecimalToFloat(number) ==
  LET zero == [hi |-> 0, lo |-> 0]
      num == BigOfDigits(number.digits, zero)
      den == BigOfDigits(<<1>> \o Zeros(number.scale), zero)
      nd == BigNormalised(num, den, 0)
      qr == BigDivBits(1, BigMinus(nd.n, nd.d), nd.d, 23)
      twice == BigTimes(qr.r, 2, 0)
      up == BigLess(nd.d, twice) \/ (twice = nd.d /\ qr.q % 2 = 1)
  IN IF num = zero THEN [neg |-> number.neg, man |-> 0, exp |-> 0]
     ELSE Carried(number.neg, IF up THEN qr.q + 1 ELSE qr.q, nd.e - 23)

\* "value = atof(valueStr)" for a float and for an int
Assigned(kind, number) ==
  IF kind = "float" THEN {DecimalToFloat(number)} ELSE DecimalToInt(number)

\* x < y for floats
FloatLess(x, y) ==
  LET Smaller(a, b) ==
        IF b.man = 0 THEN FALSE
        ELSE IF a.man = 0 THEN TRUE
        ELSE IF a.exp # b.exp THEN a.exp < b.exp
        ELSE a.man < b.man
  IN IF x.man = 0 /\ y.man = 0 THEN FALSE
     ELSE IF x.neg # y.neg THEN x.neg
     ELSE IF x.neg THEN Smaller(y, x)
     ELSE Smaller(x, y)


checkForButtonClicked_ConsumesEvent(drawn, event, uiButton) ==
  IF event.touchEventType = TOUCH_NO_EVENT
    THEN [drawn |-> drawn, event |-> event, returned |-> FALSE]
    ELSE LET X1 == uiButton.centerX - CDiv(uiButton.width, 2)
             Y1 == uiButton.centerY - CDiv(uiButton.height, 2)
             X2 == X1 + uiButton.width - 1
             Y2 == Y1 + uiButton.height - 1
             consumed == [event EXCEPT !.touchEventType = TOUCH_NO_EVENT]
         IN IF checkForTouchEventInRect(event, TOUCH_PUSHED_EVENT, X1, Y1, X2, Y2)
              THEN [drawn |-> drawn \cup {uiButton.labelText}, event |-> consumed,
                    returned |-> FALSE]
            ELSE IF checkForTouchEventInRect(event, TOUCH_RELEASED_EVENT, X1, Y1, X2, Y2)
              THEN [drawn |-> drawn \ {uiButton.labelText}, event |-> consumed,
                    returned |-> TRUE]
            ELSE [drawn |-> drawn, event |-> event, returned |-> FALSE]

\* (mutant) the touch of the button counts as a click already
checkForButtonClicked_TrueWhenPushed(drawn, event, uiButton) ==
  IF event.touchEventType = TOUCH_NO_EVENT
    THEN [drawn |-> drawn, event |-> event, returned |-> FALSE]
    ELSE LET X1 == uiButton.centerX - CDiv(uiButton.width, 2)
             Y1 == uiButton.centerY - CDiv(uiButton.height, 2)
             X2 == X1 + uiButton.width - 1
             Y2 == Y1 + uiButton.height - 1
         IN IF checkForTouchEventInRect(event, TOUCH_PUSHED_EVENT, X1, Y1, X2, Y2)
              THEN [drawn |-> drawn \cup {uiButton.labelText}, event |-> event,
                    returned |-> TRUE]
            ELSE IF checkForTouchEventInRect(event, TOUCH_RELEASED_EVENT, X1, Y1, X2, Y2)
              THEN [drawn |-> drawn \ {uiButton.labelText}, event |-> event,
                    returned |-> TRUE]
            ELSE [drawn |-> drawn, event |-> event, returned |-> FALSE]

\* checkForButtonClicked: drawn is the set of the labels of the buttons that are drawn
\* selected and event is touchEventType, touchEventX and touchEventY; the result is the
\* new drawing, the event as the call leaves it and the value returned
checkForButtonClicked(drawn, event, uiButton) ==
  IF event.touchEventType = TOUCH_NO_EVENT
    THEN [drawn |-> drawn, event |-> event, returned |-> FALSE]
    ELSE LET X1 == uiButton.centerX - CDiv(uiButton.width, 2)
             Y1 == uiButton.centerY - CDiv(uiButton.height, 2)
             X2 == X1 + uiButton.width - 1
             Y2 == Y1 + uiButton.height - 1
         IN IF checkForTouchEventInRect(event, TOUCH_PUSHED_EVENT, X1, Y1, X2, Y2)
              THEN [drawn |-> drawn \cup {uiButton.labelText}, event |-> event,
                    returned |-> FALSE]
            ELSE IF checkForTouchEventInRect(event, TOUCH_RELEASED_EVENT, X1, Y1, X2, Y2)
              THEN [drawn |-> drawn \ {uiButton.labelText}, event |-> event,
                    returned |-> TRUE]
            ELSE [drawn |-> drawn, event |-> event, returned |-> FALSE]

\* keypad_DisplayValueInStringBuf
keypad_DisplayValueInStringBuf(k) == [k EXCEPT !.shown = k.valueStr]

keypad_AddCharToStringBuf_NoLimit(k, c) ==
  LET len == IF k.firstFlg THEN 0 ELSE Len(k.valueStr)
  IN [k EXCEPT !.firstFlg = FALSE,
               !.valueStr = SubSeq(k.valueStr, 1, len) \o <<c>>,
               !.shown = SubSeq(k.valueStr, 1, len) \o <<c>>]

\* keypad_AddCharToStringBuf(c, firstFlg)
keypad_AddCharToStringBuf(k, c) ==
  IF Len(k.valueStr) >= MAX_CHARACTERS
    THEN k
    ELSE LET len == IF k.firstFlg THEN 0 ELSE Len(k.valueStr)
         IN keypad_DisplayValueInStringBuf(
              [k EXCEPT !.firstFlg = FALSE,
                        !.valueStr = SubSeq(k.valueStr, 1, len) \o <<c>>])

\* the number of "." in the string
DotCount(str) == Cardinality({i \in 1 .. Len(str) : str[i] = "."})

\* "(value >= minValue) && (value <= maxValue)"
InRange(kind, value, minValue, maxValue) ==
  IF kind = "float" THEN ~FloatLess(value, minValue) /\ ~FloatLess(maxValue, value)
  ELSE (value >= minValue) /\ (value <= maxValue)

\* what the loop of numericKeyPad does when checkForButtonClicked has returned true
\* for the button with this label: the set of the keypads that can come of it
KeyClicked(k, labelText) ==
  IF IsDigit(labelText) THEN {keypad_AddCharToStringBuf(k, labelText)}
  ELSE IF labelText = "."
    THEN {IF DotCount(k.valueStr) = 0 THEN keypad_AddCharToStringBuf(k, ".") ELSE k}
  ELSE IF labelText = "+/-"
    THEN {IF k.firstFlg \/ Len(k.valueStr) = 0 THEN keypad_AddCharToStringBuf(k, "-") ELSE k}
  ELSE IF labelText = "<"
    THEN {[keypad_DisplayValueInStringBuf(
             [k EXCEPT !.valueStr = IF Len(k.valueStr) > 0
                                      THEN SubSeq(k.valueStr, 1, Len(k.valueStr) - 1)
                                      ELSE k.valueStr])
            EXCEPT !.firstFlg = FALSE]}
  ELSE IF labelText = "OK"
    THEN {IF InRange(k.kind, value, k.minValue, k.maxValue)
            THEN [k EXCEPT !.value = value, !.pc = "returned", !.returned = TRUE]
            ELSE [k EXCEPT !.value = value, !.title = OutOfRangeTitle, !.pc = "delay"]
          : value \in Assigned(k.kind, atof(k.valueStr))}
  ELSE {[k EXCEPT !.pc = "returned", !.returned = FALSE]}

\* one pass of the loop of numericKeyPad from the check of the i-th button on, until
\* the pass ends, the keypad returns or the pass waits in delay(1500)
RECURSIVE KeypadChecks(_, _, _)
KeypadChecks(k, event, i) ==
  IF i > Len(KeypadButtons(k.kind)) \/ k.pc # "loop"
    THEN {k}
    ELSE LET uiButton == KeypadButtons(k.kind)[i]
             c == checkForButtonClicked(k.drawn, event, uiButton)
             checked == [k EXCEPT !.drawn = c.drawn]
         IN UNION {KeypadChecks(n, c.event, i + 1) :
                     n \in (IF c.returned THEN KeyClicked(checked, uiButton.labelText)
                            ELSE {checked})}

\* numericKeyPad(titleBar, value, minValue, maxValue) up to its loop. value is the
\* variable of the caller and passedIn what it held at the call; pc says whether the
\* keypad is in its loop, in delay(1500) or has returned, and returned what it returned
numericKeyPad(kind, titleBarText, value, minValue, maxValue) ==
  [kind |-> kind, titleBar |-> titleBarText, value |-> value, passedIn |-> value,
   minValue |-> minValue, maxValue |-> maxValue,
   valueStr |-> InitialValueStr(ToDecimal(kind, value)), firstFlg |-> TRUE,
   shown |-> InitialValueStr(ToDecimal(kind, value)), title |-> titleBarText, drawn |-> {},
   pc |-> "loop", returned |-> FALSE, keys |-> 0]

\* the calls of numericKeyPad that the sketch makes
KeyPadCalls ==
  <<numericKeyPad("int", "Enter a number", 50, 20, 100),
    numericKeyPad("int", "Enter a number", -INT_MAX, INT_MIN, INT_MAX),
    numericKeyPad("float", "Enter a number", FloatDiv(IntToFloat(3), IntToFloat(2)),
                  IntToFloat(-20), IntToFloat(20)),
    numericKeyPad("float", "Enter a number", IntToFloat(33554432),
                  IntToFloat(33554432), IntToFloat(67108864))>>

\* the points that the finger touches: the buttons "1", "5", "0" (or "." in the
\* keypad for a float), "+/-", "<", "OK" and "Cancel"
Point1 == [x |-> 35, y |-> 163]
Point5 == [x |-> 98, y |-> 112]
Point0 == [x |-> 98, y |-> 214]
PointMinus == [x |-> 161, y |-> 214]
PointDel == [x |-> 254, y |-> 213]
PointOK == [x |-> 254, y |-> 111]
PointCancel == [x |-> 254, y |-> 162]
KeyPadSamples ==
  {NotTouched} \cup {Touched(p) : p \in {Point1, Point5, Point0, PointMinus, PointDel,
                                         PointOK, PointCancel}}

MaxKeys == 4
KeyPadPollSteps == {TOUCH_AUTO_REPEAT_RATE}

KeyPadInit ==
  /\ StartOfSketch
  /\ layout = NoLayout
  /\ NoNumberBox
  /\ selectionBox = NULL
  /\ slider = NULL
  /\ screen = NULL
  /\ eeprom = NULL
  /\ \E i \in DOMAIN KeyPadCalls : keypad = KeyPadCalls[i]

\* one pass of the loop of numericKeyPad: getTouchEvents and the checks of the buttons
KeyPadLoop(dt, s) ==
  /\ keypad.pc = "loop"
  /\ elapsed' = elapsed + dt
  /\ now' = AddULong(now, dt)
  /\ sample' = s
  /\ getTouchEvents(now', s)
  /\ (touchEventType' = TOUCH_PUSHED_EVENT) => keypad.keys < MaxKeys
  /\ \E k \in KeypadChecks(keypad, PolledEvent, 1) :
       keypad' = [k EXCEPT !.keys = IF touchEventType' = TOUCH_PUSHED_EVENT
                                      THEN k.keys + 1 ELSE k.keys]
  /\ UNCHANGED <<hist, menuVars, layout, numberBoxVars, screen, selectionBox, slider, eeprom>>

\* delay(1500) ends: the title is drawn again and the pass goes on with the check of
\* the Cancel button
KeyPadDelayEnds ==
  /\ keypad.pc = "delay"
  /\ elapsed' = elapsed + OutOfRangeDelay
  /\ now' = AddULong(now, OutOfRangeDelay)
  /\ \E k \in KeypadChecks([keypad EXCEPT !.title = keypad.titleBar, !.pc = "loop"],
                           Event(touchEventType, touchEventX, touchEventY),
                           Len(KeypadButtons(keypad.kind))) :
       keypad' = k
  /\ UNCHANGED <<touchVars, sample, hist, menuVars, layout, numberBoxVars, screen, selectionBox,
                 slider, eeprom>>

\* the user clicks one key after another: the finger comes down on a key, stays on it
\* until the touch is confirmed, and is lifted for the next key
RestingKeys ==
  IF touchState = WAITING_FOR_TOUCH_DOWN_STATE THEN KeyPadSamples \ {NotTouched}
  ELSE IF touchState = CONFIRM_TOUCH_DOWN_STATE THEN {sample}
  ELSE {NotTouched}

KeyPadNext ==
  \/ \E dt \in KeyPadPollSteps, s \in RestingKeys : KeyPadLoop(dt, s)
  \/ KeyPadDelayEnds

KeyPadSpec == KeyPadInit /\ [][KeyPadNext]_vars



\* ---------------------------------------------------------------------------
\*                    A sketch that shows a Selection Box
\* ---------------------------------------------------------------------------

\* countSelectionBoxChoices
countSelectionBoxChoices(box) ==
  IF box.choice1Text = "" THEN 1
  ELSE IF box.choice2Text = "" THEN 2
  ELSE IF box.choice3Text = "" THEN 3
  ELSE 4

\* getCoordsOfSelectionBoxCell
getCoordsOfSelectionBoxCell(box, cellNumber) ==
  LET numberOfCells == countSelectionBoxChoices(box)
      cellWidth == CDiv(box.width - 3, numberOfCells)
      overallWidth == cellWidth * numberOfCells
  IN [X |-> (box.centerX - CDiv(overallWidth, 2)) + (cellNumber * cellWidth),
      Y |-> box.centerY - CDiv(box.height - 3, 2),
      width |-> cellWidth,
      height |-> box.height - 3]

\* drawSelectionBoxCell for every cell: the cell that is shown selected, and whether it
\* is shown touched
drawSelectionBoxCells(box, showButtonTouchedFlg) ==
  [value |-> box.value, touched |-> showButtonTouchedFlg]

\* drawSelectionBox
drawSelectionBox(box) == drawSelectionBoxCells(box, FALSE)

RECURSIVE checkForSelectionBoxTouched_TrueOnEveryPress(_, _, _)
checkForSelectionBoxTouched_TrueOnEveryPress(b, event, cellNumber) ==
  IF event.touchEventType = TOUCH_NO_EVENT THEN [b EXCEPT !.returned = FALSE]
  ELSE IF cellNumber >= countSelectionBoxChoices(b.box) THEN [b EXCEPT !.returned = FALSE]
  ELSE LET at == getCoordsOfSelectionBoxCell(b.box, cellNumber)
           InCell(eventType) ==
             checkForTouchEventInRect(event, eventType, at.X, at.Y,
                                      at.X + at.width - 1, at.Y + at.height - 1)
           selected == [b.box EXCEPT !.value = cellNumber]
       IN IF InCell(TOUCH_PUSHED_EVENT)
            THEN [box |-> selected,
                  shown |-> drawSelectionBoxCells(selected, TRUE),
                  returned |-> TRUE]
          ELSE IF InCell(TOUCH_RELEASED_EVENT)
            THEN [b EXCEPT !.shown = drawSelectionBoxCells(b.box, FALSE),
                           !.returned = FALSE]
          ELSE checkForSelectionBoxTouched_TrueOnEveryPress(b, event, cellNumber + 1)

\* checkForSelectionBoxTouched from the check of the cell cellNumber on; b holds the
\* Selection Box, what is shown of it and the value returned
RECURSIVE checkForSelectionBoxTouched(_, _, _)
checkForSelectionBoxTouched(b, event, cellNumber) ==
  IF event.touchEventType = TOUCH_NO_EVENT THEN [b EXCEPT !.returned = FALSE]
  ELSE IF cellNumber >= countSelectionBoxChoices(b.box) THEN [b EXCEPT !.returned = FALSE]
  ELSE LET at == getCoordsOfSelectionBoxCell(b.box, cellNumber)
           InCell(eventType) ==
             checkForTouchEventInRect(event, eventType, at.X, at.Y,
                                      at.X + at.width - 1, at.Y + at.height - 1)
           selected == [b.box EXCEPT !.value = cellNumber]
       IN IF InCell(TOUCH_PUSHED_EVENT)
            THEN [box |-> selected,
                  shown |-> drawSelectionBoxCells(selected, TRUE),
                  returned |-> b.box.value # selected.value]
          ELSE IF InCell(TOUCH_RELEASED_EVENT)
            THEN [b EXCEPT !.shown = drawSelectionBoxCells(b.box, FALSE),
                           !.returned = FALSE]
          ELSE checkForSelectionBoxTouched(b, event, cellNumber + 1)

\* the Selection Boxes of the sketch: the one of the README with one to four choices
SelectionBoxOf(value, choices) ==
  [labelText |-> "Laser power level", value |-> value,
   choice0Text |-> "Low",
   choice1Text |-> IF choices > 1 THEN "Medium" ELSE "",
   choice2Text |-> IF choices > 2 THEN "High" ELSE "",
   choice3Text |-> IF choices > 3 THEN "Max" ELSE "",
   centerX |-> displaySpaceLeftX + CDiv(displaySpaceWidth, 2),
   centerY |-> displaySpaceTopY + CDiv(displaySpaceHeight, 2) - 20,
   width |-> 250, height |-> 33]
SelectionBoxes ==
  {SelectionBoxOf(0, 3), SelectionBoxOf(2, 3), SelectionBoxOf(1, 4), SelectionBoxOf(1, 2),
   SelectionBoxOf(0, 1)}

\* the points that the finger touches: three in the Selection Box and one off it
PointMiddle == [x |-> 160, y |-> 116]
SelectionBoxSamples ==
  {NotTouched, Touched(PointUp), Touched(PointMiddle), Touched(PointDown),
   Touched(PointBack)}

\* the longest time the Selection Box screen is watched
SelectionBoxMaxTime == 1800
SelectionBoxPollSteps == {TOUCH_AUTO_REPEAT_RATE}

SelectionBoxInit ==
  /\ TouchScreenStart
  /\ CommandScreen("commandMakeAChoice", "Using Selection Boxes")
  /\ layout = NoLayout
  /\ NoNumberBox
  /\ keypad = NULL
  /\ slider = NULL
  /\ screen = NULL
  /\ eeprom = NULL
  /\ \E box \in SelectionBoxes :
       selectionBox = [box |-> box, shown |-> drawSelectionBox(box), returned |-> FALSE]

\* one iteration of the loop of the sketch: getTouchEvents, checkForSelectionBoxTouched,
\* then checkForBackButtonClicked, which ends the function when it returns true
SelectionBoxLoop(dt, s) ==
  /\ pc = "command"
  /\ elapsed + dt <= SelectionBoxMaxTime
  /\ elapsed' = elapsed + dt
  /\ now' = AddULong(now, dt)
  /\ sample' = s
  /\ getTouchEvents(now', s)
  /\ selectionBox' = checkForSelectionBoxTouched(selectionBox, PolledEvent, 0)
  /\ ReturnOnBackButton
  /\ UNCHANGED <<hist, layout, numberBoxVars, screen, keypad, slider, eeprom>>

\* the finger stays on the point it has come down on until it is lifted
RestingOnSelectionBox ==
  {s \in SelectionBoxSamples : (s.touched /\ sample.touched) => s = sample}

SelectionBoxNext ==
  \E dt \in SelectionBoxPollSteps, s \in RestingOnSelectionBox : SelectionBoxLoop(dt, s)

SelectionBoxSpec == SelectionBoxInit /\ [][SelectionBoxNext]_vars



\* ---------------------------------------------------------------------------
\*                       A sketch that shows a Slider
\* ---------------------------------------------------------------------------

SLIDER_BALL_RADIUS == 10

\* getSliderBallXPosition: "float f = value - minimumValue; f = f / (maximumValue -
\* minimumValue); int i = (int) ((f * width) + .5);"
getSliderBallXPosition(sl) ==
  LET f == FloatDiv(IntToFloat(sl.value - sl.minimumValue),
                    IntToFloat(sl.maximumValue - sl.minimumValue))
      i == PlusHalfToInt(FloatMul(f, IntToFloat(sl.width)))
  IN sl.centerX - CDiv(sl.width, 2) + i

\* "if (value < minimumValue) value = minimumValue; if (value > maximumValue) value =
\* maximumValue;"
SliderLimited(sl, value) ==
  LET raised == IF value < sl.minimumValue THEN sl.minimumValue ELSE value
  IN IF raised > sl.maximumValue THEN sl.maximumValue ELSE raised

\* getBallsValue
getBallsValue(sl, lcdX) ==
  LET sliderPos == lcdX - (sl.centerX - CDiv(sl.width, 2))
      value == CDiv(sliderPos * (sl.maximumValue - sl.minimumValue), sl.width)
               + sl.minimumValue
      limited == SliderLimited(sl, value)
      rounded == CDiv(limited + CDiv(sl.stepAmount, 2), sl.stepAmount) * sl.stepAmount
  IN SliderLimited(sl, rounded)

\* drawSliderBall: where the ball is drawn
drawSliderBall(sl) == getSliderBallXPosition(sl)

\* the rectangle around the ball that a first touch has to be in
BallBox(sl) ==
  LET sliderX == getSliderBallXPosition(sl)
      ballLeft == sliderX - (SLIDER_BALL_RADIUS + 2)
      ballRight == sliderX + (SLIDER_BALL_RADIUS + 2)
      ballTop == sl.centerY - (SLIDER_BALL_RADIUS + 2)
      ballBottom == sl.centerY + (SLIDER_BALL_RADIUS + 2)
  IN [ballLeft |-> IF ballLeft < 0 THEN 0 ELSE ballLeft,
      ballRight |-> IF ballRight > lcdWidth - 1 THEN lcdWidth - 1 ELSE ballRight,
      ballTop |-> IF ballTop < 0 THEN 0 ELSE ballTop,
      ballBottom |-> IF ballBottom > lcdHeight - 1 THEN lcdHeight - 1 ELSE ballBottom]

\* the touch is in the rectangle around the ball
OnBall(sl, touch) ==
  LET box == BallBox(sl)
  IN /\ touch.x >= box.ballLeft /\ touch.x <= box.ballRight
     /\ touch.y >= box.ballTop /\ touch.y <= box.ballBottom

\* checkForSliderTouched; touch is what getTouchScreenCoords returns, b holds the Slider,
\* the place where its ball is drawn and the value returned
checkForSliderTouched(b, touch) ==
  IF ~touch.touched
    THEN [b EXCEPT !.slider.state = 0, !.returned = FALSE]
  ELSE IF b.slider.state = 0
    THEN IF OnBall(b.slider, touch)
           THEN [b EXCEPT !.slider.state = 1, !.returned = FALSE]
           ELSE [b EXCEPT !.returned = FALSE]
  ELSE IF b.slider.state = 1
    THEN LET newValue == getBallsValue(b.slider, touch.x)
             moved == [b.slider EXCEPT !.value = newValue]
         IN IF newValue # b.slider.value
              THEN [b EXCEPT !.slider = moved, !.ball = drawSliderBall(moved),
                             !.returned = TRUE]
              ELSE [b EXCEPT !.returned = FALSE]
  ELSE [b EXCEPT !.slider.state = 0, !.returned = FALSE]

\* a SLIDER as the sketch of the README fills it in; state is not assigned
SliderOf(value, minimumValue, maximumValue, stepAmount, width, state) ==
  [value |-> value, minimumValue |-> minimumValue, maximumValue |-> maximumValue,
   stepAmount |-> stepAmount, centerX |-> displaySpaceLeftX + CDiv(displaySpaceWidth, 2),
   centerY |-> 125, width |-> width, state |-> state]

\* the values that the state of a SLIDER can hold before the first call: it is never
\* assigned, 2 stands for every value other than 0 and 1
UnassignedStates == {0, 1, 2}

Sliders ==
  {SliderOf(50, 1, 100, 1, 250, state) : state \in UnassignedStates}
  \cup {SliderOf(0, -100, 100, 5, 200, state) : state \in UnassignedStates}
  \cup {SliderOf(40, 0, 100, 10, 250, 0)}

\* the points that the finger touches: on the line of the Slider, below it and on the
\* Back button
SliderXs == {20, 60, 152, 157, 163, 168, 235, 300}
SliderSamples ==
  {NotTouched} \cup {Touched([x |-> x, y |-> 125]) : x \in SliderXs}
  \cup {Touched([x |-> 160, y |-> 200]), Touched(PointBack)}

\* the longest time the Slider screen is watched
SliderMaxTime == 600
SliderPollSteps == {TOUCH_AUTO_REPEAT_RATE}

SliderInit ==
  /\ TouchScreenStart
  /\ CommandScreen("commandSetPowerLevel", "Get Integer Value Using a Slider")
  /\ layout = NoLayout
  /\ NoNumberBox
  /\ keypad = NULL
  /\ selectionBox = NULL
  /\ screen = NULL
  /\ eeprom = NULL
  /\ \E sl \in Sliders :
       slider = [slider |-> sl, ball |-> drawSliderBall(sl), returned |-> FALSE,
                 entered |-> FALSE]

\* one iteration of the loop of the sketch: getTouchEvents, then checkForSliderTouched,
\* which reads the screen again and finds the finger where getTouchEvents found it.
\* entered records (observation only) whether the finger has been on the ball since it
\* came down
SliderLoop(dt, s) ==
  /\ pc = "command"
  /\ elapsed + dt <= SliderMaxTime
  /\ elapsed' = elapsed + dt
  /\ now' = AddULong(now, dt)
  /\ sample' = s
  /\ getTouchEvents(now', s)
  /\ slider' = [checkForSliderTouched(slider, s)
                  EXCEPT !.entered = s.touched /\ (slider.entered \/ OnBall(slider.slider, s))]
  /\ ReturnOnBackButton
  /\ UNCHANGED <<hist, layout, numberBoxVars, screen, keypad, selectionBox, eeprom>>

SliderNext == \E dt \in SliderPollSteps, s \in SliderSamples : SliderLoop(dt, s)

SliderSpec == SliderInit /\ [][SliderNext]_vars

\* Sliders of the same three ranges with every value that the steps allow
HeldSliders ==
  {SliderOf(v, 1, 100, 1, 250, state) : v \in 1..100, state \in UnassignedStates}
  \cup {SliderOf(v * 5, -100, 100, 5, 200, state) : v \in -20..20, state \in UnassignedStates}
  \cup {SliderOf(v * 10, 0, 100, 10, 250, state) : v \in 0..10, state \in UnassignedStates}

SliderHoldInit ==
  /\ TouchScreenStart
  /\ CommandScreen("commandSetPowerLevel", "Get Integer Value Using a Slider")
  /\ layout = NoLayout
  /\ NoNumberBox
  /\ keypad = NULL
  /\ selectionBox = NULL
  /\ screen = NULL
  /\ eeprom = NULL
  /\ \E sl \in HeldSliders :
       slider = [slider |-> sl, ball |-> drawSliderBall(sl), returned |-> FALSE,
                 entered |-> FALSE]

\* the finger is off the screen or exactly on the centre of the ball as it is drawn
OnBallCentre == Touched([x |-> slider.ball, y |-> slider.slider.centerY])

SliderHoldNext ==
  \E dt \in SliderPollSteps, s \in {NotTouched, OnBallCentre} : SliderLoop(dt, s)

SliderHoldSpec == SliderHoldInit /\ [][SliderHoldNext]_vars



\* ---------------------------------------------------------------------------
\*        commandHoldToSayHello: a button that is checked twice in every pass
\* ---------------------------------------------------------------------------

displaySpaceBottomY == displaySpaceTopY + displaySpaceHeight - 1
displaySpaceCenterX == displaySpaceLeftX + CDiv(displaySpaceWidth, 2)
displaySpaceCenterY == displaySpaceTopY + CDiv(displaySpaceHeight, 2)

\* "BUTTON sayHelloButton = {"Hold to say hello", 90, ui.displaySpaceCenterY, 140, 120};"
sayHelloButton == Button("Hold to say hello", 90, displaySpaceCenterY, 140, 120)

\* checkForButtonFirstTouched: drawn is the set of the labels of the buttons that are
\* drawn selected; the result is the new drawing, the event as the call leaves it and the
\* value returned
checkForButtonFirstTouched(drawn, event, uiButton) ==
  IF event.touchEventType = TOUCH_NO_EVENT
    THEN [drawn |-> drawn, event |-> event, returned |-> FALSE]
    ELSE LET X1 == uiButton.centerX - CDiv(uiButton.width, 2)
             Y1 == uiButton.centerY - CDiv(uiButton.height, 2)
             X2 == X1 + uiButton.width - 1
             Y2 == Y1 + uiButton.height - 1
         IN IF checkForTouchEventInRect(event, TOUCH_PUSHED_EVENT, X1, Y1, X2, Y2)
              THEN [drawn |-> drawn \cup {uiButton.labelText}, event |-> event,
                    returned |-> TRUE]
              ELSE [drawn |-> drawn, event |-> event, returned |-> FALSE]

\* the two checks of the button in one pass: "if (ui.checkForButtonFirstTouched(
\* sayHelloButton)) { ... ui.lcdPrint("Hello"); }" and "if (ui.checkForButtonClicked(
\* sayHelloButton)) { ... ui.lcdDrawFilledRectangle(helloX, helloY, ...); }". seen holds
\* the event that each of the two checks finds, left the event after the second check,
\* and hello says whether "Hello" is on the screen
ButtonChecks(sc, event) ==
  LET first == checkForButtonFirstTouched(sc.drawn, event, sayHelloButton)
      click == checkForButtonClicked(first.drawn, first.event, sayHelloButton)
  IN [sc EXCEPT !.drawn = click.drawn,
                !.hello = IF click.returned THEN FALSE
                          ELSE IF first.returned THEN TRUE ELSE @,
                !.firstTouched = first.returned,
                !.clicked = click.returned,
                !.seen = <<event, first.event>>,
                !.left = click.event]

\* the points that the finger touches: on the button, beside it and on the Back button
PointOnHello == [x |-> 60, y |-> 150]
PointBeside == [x |-> 260, y |-> 150]
ButtonSamples ==
  {NotTouched, Touched(PointOnHello), Touched(PointBeside), Touched(PointBack)}

\* the longest time the screen with the button is watched
ButtonsMaxTime == 1800
ButtonsPollSteps == {TOUCH_AUTO_REPEAT_RATE}

\* commandHoldToSayHello has drawn the title bar with the Back button and the button
ButtonsInit ==
  /\ TouchScreenStart
  /\ CommandScreen("commandHoldToSayHello", "Touch The Button To Say Hello")
  /\ layout = NoLayout
  /\ NoNumberBox
  /\ keypad = NULL
  /\ selectionBox = NULL
  /\ slider = NULL
  /\ eeprom = NULL
  /\ screen = [drawn |-> {}, hello |-> FALSE, firstTouched |-> FALSE, clicked |-> FALSE,
               seen |-> <<>>, left |-> Event(touchEventType, touchEventX, touchEventY),
               trues |-> 0]

\* one pass of the loop of commandHoldToSayHello: getTouchEvents, then "if
\* (ui.checkForBackButtonClicked()) return;", then the two checks of the button. trues
\* counts how often checkForButtonClicked has returned true since the latest Pressed
\* event
ButtonsLoop(dt, s) ==
  /\ pc = "command"
  /\ elapsed + dt <= ButtonsMaxTime
  /\ elapsed' = elapsed + dt
  /\ now' = AddULong(now, dt)
  /\ sample' = s
  /\ getTouchEvents(now', s)
  /\ hist' = HistAfterPoll(dt, s)
  /\ ReturnOnBackButton
  /\ IF checkForBackButtonClicked(Machine, PolledEvent).clicked
       THEN screen' = [screen EXCEPT !.firstTouched = FALSE, !.clicked = FALSE,
                                     !.seen = <<>>, !.left = PolledEvent]
       ELSE LET sc == ButtonChecks(screen, PolledEvent)
            IN screen' =
                 [sc EXCEPT !.trues =
                    (IF touchEventType' = TOUCH_PUSHED_EVENT THEN 0 ELSE screen.trues)
                    + (IF sc.clicked THEN 1 ELSE 0)]
  /\ UNCHANGED <<layout, numberBoxVars, keypad, selectionBox, slider, eeprom>>

ButtonsNext == \E dt \in ButtonsPollSteps, s \in ButtonSamples : ButtonsLoop(dt, s)

ButtonsSpec == ButtonsInit /\ [][ButtonsNext]_vars


\* ---------------------------------------------------------------------------
\*              A sketch with a button that repeats while it is held
\* ---------------------------------------------------------------------------

\* checkForButtonAutoRepeat: drawn is the set of the labels of the buttons that are
\* drawn selected; the result is the new drawing, the event as the call leaves it and the
\* value returned
checkForButtonAutoRepeat(drawn, event, uiButton) ==
  IF event.touchEventType = TOUCH_NO_EVENT
    THEN [drawn |-> drawn, event |-> event, returned |-> FALSE]
    ELSE LET X1 == uiButton.centerX - CDiv(uiButton.width, 2)
             Y1 == uiButton.centerY - CDiv(uiButton.height, 2)
             X2 == X1 + uiButton.width - 1
             Y2 == Y1 + uiButton.height - 1
         IN IF checkForTouchEventInRect(event, TOUCH_PUSHED_EVENT, X1, Y1, X2, Y2)
              THEN [drawn |-> drawn \cup {uiButton.labelText}, event |-> event,
                    returned |-> TRUE]
            ELSE IF checkForTouchEventInRect(event, TOUCH_REPEAT_EVENT, X1, Y1, X2, Y2)
              THEN [drawn |-> drawn, event |-> event, returned |-> TRUE]
            ELSE IF checkForTouchEventInRect(event, TOUCH_RELEASED_EVENT, X1, Y1, X2, Y2)
              THEN [drawn |-> drawn \ {uiButton.labelText}, event |-> event,
                    returned |-> FALSE]
            ELSE [drawn |-> drawn, event |-> event, returned |-> FALSE]

\* "BUTTON okButton = {"OK", ui.displaySpaceCenterX-70, ui.displaySpaceBottomY-35, 120,
\* 35};" and a point on it
okButton == Button("OK", displaySpaceCenterX - 70, displaySpaceBottomY - 35, 120, 35)
PointOnOK == [x |-> 60, y |-> 202]

\* the longest time the button is watched: the touch, the delay before the first
\* AutoRepeat event and a few repeats
RepeatButtonMaxTime == 1560

RepeatButtonSamples == {NotTouched, Touched(PointOnOK), Touched(PointBack)}

RepeatButtonInit ==
  /\ StartOfSketch
  /\ layout = NoLayout
  /\ NoNumberBox
  /\ keypad = NULL
  /\ selectionBox = NULL
  /\ slider = NULL
  /\ eeprom = NULL
  /\ screen = [drawn |-> {}, returned |-> FALSE]

\* one pass of the loop of the sketch: getTouchEvents, then
\* "if (checkForButtonAutoRepeat(okButton)) ..."
RepeatButtonLoop(dt, s) ==
  /\ elapsed + dt <= RepeatButtonMaxTime
  /\ elapsed' = elapsed + dt
  /\ now' = AddULong(now, dt)
  /\ sample' = s
  /\ getTouchEvents(now', s)
  /\ hist' = HistAfterPoll(dt, s)
  /\ LET c == checkForButtonAutoRepeat(screen.drawn, PolledEvent, okButton)
     IN screen' = [drawn |-> c.drawn, returned |-> c.returned]
  /\ UNCHANGED <<menuVars, layout, numberBoxVars, keypad, selectionBox, slider, eeprom>>

RepeatButtonNext == \E s \in RepeatButtonSamples : RepeatButtonLoop(TOUCH_AUTO_REPEAT_RATE, s)

RepeatButtonSpec == RepeatButtonInit /\ [][RepeatButtonNext]_vars


\* ---------------------------------------------------------------------------
\*          A sketch that calls checkForTouchEventInRect after every poll
\* ---------------------------------------------------------------------------

\* the rectangles the sketch asks about: one with PointA and PointB on its corners and
\* one that is a pixel smaller on every side
Rect(x1, y1, x2, y2) == [rectX1 |-> x1, rectY1 |-> y1, rectX2 |-> x2, rectY2 |-> y2]
HitTestRects ==
  {Rect(PointA.x, PointA.y, PointB.x, PointB.y),
   Rect(PointA.x + 1, PointA.y + 1, PointB.x - 1, PointB.y - 1)}

\* the values the sketch passes as eventType
EventTypes == {TOUCH_NO_EVENT, TOUCH_PUSHED_EVENT, TOUCH_RELEASED_EVENT, TOUCH_REPEAT_EVENT}

\* the longest time the sketch is watched
HitTestMaxTime == 1440

HitTestInit ==
  /\ StartOfSketch
  /\ layout = NoLayout
  /\ NoNumberBox
  /\ keypad = NULL
  /\ selectionBox = NULL
  /\ slider = NULL
  /\ eeprom = NULL
  /\ screen = [eventType |-> TOUCH_PUSHED_EVENT,
               rect |-> Rect(PointA.x, PointA.y, PointB.x, PointB.y),
               returned |-> FALSE]

\* one pass of the loop: getTouchEvents, then
\* checkForTouchEventInRect(eventType, rectX1, rectY1, rectX2, rectY2)
HitTestLoop(dt, s, eventType, rect) ==
  /\ elapsed + dt <= HitTestMaxTime
  /\ elapsed' = elapsed + dt
  /\ now' = AddULong(now, dt)
  /\ sample' = s
  /\ getTouchEvents(now', s)
  /\ screen' = [eventType |-> eventType,
                rect |-> rect,
                returned |-> checkForTouchEventInRect(PolledEvent, eventType, rect.rectX1,
                                                      rect.rectY1, rect.rectX2, rect.rectY2)]
  /\ UNCHANGED <<hist, menuVars, layout, numberBoxVars, keypad, selectionBox, slider, eeprom>>

HitTestNext ==
  \E s \in TwoPointSamples, eventType \in EventTypes, rect \in HitTestRects :
    HitTestLoop(TOUCH_AUTO_REPEAT_RATE, s, eventType, rect)

HitTestSpec == HitTestInit /\ [][HitTestNext]_vars



\* ---------------------------------------------------------------------------
\*          A sketch that saves its configuration values in the EEPROM
\* ---------------------------------------------------------------------------

\* what a byte of an EEPROM that has never been written reads as
ErasedByte == 255

\* the bytes in memory of a short, an int and a float, lowest address first. A short is
\* 16 and an int 32 bits wide, negative numbers in two's complement, the lowest byte
\* first; a float is <<sign, exponent, fraction>>, the three fields of its 32 bits
BytesOfShort(value) ==
  LET u == IF value < 0 THEN value + 65536 ELSE value
  IN <<u % 256, u \div 256>>
ShortOfBytes(b) ==
  LET u == b[1] + 256 * b[2]
  IN IF u >= 32768 THEN u - 65536 ELSE u
BytesOfInt(value) ==
  LET low == IF value < 0 THEN value - INT_MIN ELSE value
  IN <<low % 256, (low \div 256) % 256, (low \div 65536) % 256,
       (low \div 16777216) + (IF value < 0 THEN 128 ELSE 0)>>
IntOfBytes(b) ==
  (IF b[4] >= 128 THEN b[4] - 256 ELSE b[4]) * 16777216 + b[3] * 65536 + b[2] * 256 + b[1]
BytesOfFloat(value) ==
  <<value[3] % 256, (value[3] \div 256) % 256,
    (value[2] % 2) * 128 + (value[3] \div 65536), value[1] * 128 + (value[2] \div 2)>>
FloatOfBytes(b) ==
  <<b[4] \div 128, (b[4] % 128) * 2 + (b[3] \div 128),
    (b[3] % 128) * 65536 + b[2] * 256 + b[1]>>

\* the EEPROM after EEPROM.write(address + 1, dataPntr[0]), EEPROM.write(address + 2,
\* dataPntr[1]), ...
WriteBytes(cells, address, dataPntr) ==
  [a \in DOMAIN cells |->
     IF a > address /\ a <= address + Len(dataPntr) THEN dataPntr[a - address] ELSE cells[a]]

\* "if (EEPROM.read(EEPromAddress) == 0xff) EEPROM.write(EEPromAddress, 0);"
MarkWritten(cells, EEPromAddress) ==
  IF cells[EEPromAddress] = ErasedByte THEN [cells EXCEPT ![EEPromAddress] = 0] ELSE cells

writeConfigurationByte(cells, EEPromAddress, value) ==
  WriteBytes(MarkWritten(cells, EEPromAddress), EEPromAddress, <<value>>)

readConfigurationByte(cells, EEPromAddress, defaultValue) ==
  IF cells[EEPromAddress] = ErasedByte THEN defaultValue ELSE cells[EEPromAddress + 1]

writeConfigurationShort(cells, EEPromAddress, value) ==
  WriteBytes(MarkWritten(cells, EEPromAddress), EEPromAddress, BytesOfShort(value))

readConfigurationShort(cells, EEPromAddress, defaultValue) ==
  IF cells[EEPromAddress] = ErasedByte
    THEN defaultValue
    ELSE ShortOfBytes(<<cells[EEPromAddress + 1], cells[EEPromAddress + 2]>>)

\* (mutant) the value is written without marking the address as written
writeConfigurationInt_NoMarker(cells, EEPromAddress, value) ==
  WriteBytes(cells, EEPromAddress, BytesOfInt(value))

writeConfigurationInt(cells, EEPromAddress, value) ==
  WriteBytes(MarkWritten(cells, EEPromAddress), EEPromAddress, BytesOfInt(value))

readConfigurationInt(cells, EEPromAddress, defaultValue) ==
  IF cells[EEPromAddress] = ErasedByte
    THEN defaultValue
    ELSE IntOfBytes(<<cells[EEPromAddress + 1], cells[EEPromAddress + 2],
                      cells[EEPromAddress + 3], cells[EEPromAddress + 4]>>)

writeConfigurationFloat(cells, EEPromAddress, value) ==
  WriteBytes(MarkWritten(cells, EEPromAddress), EEPromAddress, BytesOfFloat(value))

readConfigurationFloat(cells, EEPromAddress, defaultValue) ==
  IF cells[EEPromAddress] = ErasedByte
    THEN defaultValue
    ELSE FloatOfBytes(<<cells[EEPromAddress + 1], cells[EEPromAddress + 2],
                        cells[EEPromAddress + 3], cells[EEPromAddress + 4]>>)

\* the settings of the sketch: the int and the float of the README, then a short and a
\* byte, each at the address that follows the bytes of the setting before it
EEPROM_X_OFFSET == 0
EEPROM_X_SCALER == EEPROM_X_OFFSET + 5
EEPROM_Y_OFFSET == EEPROM_X_SCALER + 5
EEPROM_FLAGS == EEPROM_Y_OFFSET + 3
\* the number of bytes of the EEPROM that the model keeps: one more than the sketch uses
CellCount == EEPROM_FLAGS + 3

\* a float as <<sign, exponent, fraction>>: 0.57, 1.0, -2.5, and the float whose four
\* bytes are all 0xff
DEFAULT_X_SCALER == <<0, 126, 1174405>>
FloatValues == {<<0, 127, 0>>, <<1, 128, 2097152>>, <<1, 255, 8388607>>}
DEFAULT_X_OFFSET == 50
IntValues == {-1, INT_MIN, 16909060}
ShortValues == {-1, -32768, 258}
ByteValues == {255, 18}

Settings ==
  <<[type |-> "int", address |-> EEPROM_X_OFFSET, defaultValue |-> DEFAULT_X_OFFSET,
     values |-> IntValues],
    [type |-> "float", address |-> EEPROM_X_SCALER, defaultValue |-> DEFAULT_X_SCALER,
     values |-> FloatValues],
    [type |-> "short", address |-> EEPROM_Y_OFFSET, defaultValue |-> 7,
     values |-> ShortValues],
    [type |-> "byte", address |-> EEPROM_FLAGS, defaultValue |-> 1, values |-> ByteValues]>>

\* the call of the write and of the read function of the type of a setting
writeConfiguration(cells, setting, value) ==
  CASE setting.type = "byte" -> writeConfigurationByte(cells, setting.address, value)
    [] setting.type = "short" -> writeConfigurationShort(cells, setting.address, value)
    [] setting.type = "int" -> writeConfigurationInt(cells, setting.address, value)
    [] setting.type = "float" -> writeConfigurationFloat(cells, setting.address, value)
readConfiguration(cells, setting) ==
  CASE setting.type = "byte" ->
         readConfigurationByte(cells, setting.address, setting.defaultValue)
    [] setting.type = "short" ->
         readConfigurationShort(cells, setting.address, setting.defaultValue)
    [] setting.type = "int" ->
         readConfigurationInt(cells, setting.address, setting.defaultValue)
    [] setting.type = "float" ->
         readConfigurationFloat(cells, setting.address, setting.defaultValue)

\* eeprom.cells are the bytes of the EEPROM; saved[i] is <<v>> when v is the value the
\* sketch has written last for the i-th setting and <<>> when it has written none;
\* read is <<i, v>> when the latest call has read v for the i-th setting, <<>> otherwise
ConfigInit ==
  /\ StartOfSketch
  /\ layout = NoLayout
  /\ NoNumberBox
  /\ keypad = NULL
  /\ selectionBox = NULL
  /\ slider = NULL
  /\ screen = NULL
  /\ eeprom = [cells |-> [a \in 0 .. CellCount - 1 |-> ErasedByte],
               saved |-> [i \in DOMAIN Settings |-> <<>>],
               read |-> <<>>]

\* the sketch saves a value of a setting
ConfigWrite(i, value) ==
  /\ eeprom' = [cells |-> writeConfiguration(eeprom.cells, Settings[i], value),
                saved |-> [eeprom.saved EXCEPT ![i] = <<value>>],
                read |-> <<>>]
  /\ UNCHANGED <<now, elapsed, sample, touchVars, hist, menuVars, layout, numberBoxVars,
                 keypad, selectionBox, slider, screen>>

\* the sketch reads a setting
ConfigRead(i) ==
  /\ eeprom' = [eeprom EXCEPT !.read = <<i, readConfiguration(eeprom.cells, Settings[i])>>]
  /\ UNCHANGED <<now, elapsed, sample, touchVars, hist, menuVars, layout, numberBoxVars,
                 keypad, selectionBox, slider, screen>>

ConfigNext ==
  \E i \in DOMAIN Settings :
    \/ \E value \in Settings[i].values : ConfigWrite(i, value)
    \/ ConfigRead(i)

ConfigSpec == ConfigInit /\ [][ConfigNext]_vars


\* ---------------------------------------------------------------------------
\*                    Properties of the touch-event state machine
\* ---------------------------------------------------------------------------

\* C1 (as claimed): one Released per release that was held for the debounce period:
\* a Released event is emitted only at a poll that samples the screen untouched when
\* no poll of the last 30 ms sampled it touched.  (The other half of the sentence,
\* that a touch shorter than the debounce period produces nothing, is C3.)
C1_ReleasedOnlyAfterDebouncedRelease ==
  touchEventType = TOUCH_RELEASED_EVENT =>
    (~sample.touched /\ hist.stretch >= TOUCH_DEBOUNCE_PERIOD)

\* C2 (as claimed): a poll in WaitingUp or WaitingUpAfterRepeat that samples the
\* screen untouched moves to ConfirmUp, restarts the timer at the current time and
\* emits None; so no Released is emitted less than 30 ms after that poll.
C2_ReleaseRestartsDebounceTimer ==
  /\ (hist.prevState \in HeldStates /\ ~sample.touched) =>
       /\ touchState = CONFIRM_TOUCH_UP_STATE
       /\ touchEventStartTime = now
       /\ touchEventType = TOUCH_NO_EVENT
  /\ touchEventType = TOUCH_RELEASED_EVENT =>
       hist.sinceRelease >= TOUCH_DEBOUNCE_PERIOD

\* C3 (as claimed): a touch that has not been sampled touched, without an untouched
\* sample in between, for the 30 ms debounce period produces no event: a Pressed is
\* emitted only when no poll of the last 30 ms sampled the screen untouched.
C3_NoEventsWithoutContiguousTouch ==
  touchEventType = TOUCH_PUSHED_EVENT =>
    (sample.touched /\ hist.stretch >= TOUCH_DEBOUNCE_PERIOD)

\* C3 (amended): the touch-down is confirmed by one further sample.  Polls less than
\* 30 ms after the poll that sampled the touch-down emit nothing and do not look at
\* the sample; the first poll at least 30 ms after it emits Pressed if it samples
\* the screen touched, and otherwise emits nothing and returns to WaitingDown, so
\* that the touch has produced zero events.
C3_ConfirmingPollDecides ==
  /\ touchEventType = TOUCH_PUSHED_EVENT =>
       /\ hist.prevState = CONFIRM_TOUCH_DOWN_STATE
       /\ sample.touched
       /\ hist.sinceDown >= TOUCH_DEBOUNCE_PERIOD
  /\ hist.prevState = CONFIRM_TOUCH_DOWN_STATE =>
       IF hist.sinceDown < TOUCH_DEBOUNCE_PERIOD
         THEN touchState = CONFIRM_TOUCH_DOWN_STATE /\ touchEventType = TOUCH_NO_EVENT
         ELSE IF sample.touched
           THEN touchState = WAITING_FOR_TOUCH_UP_STATE
                /\ touchEventType = TOUCH_PUSHED_EVENT
           ELSE touchState = WAITING_FOR_TOUCH_DOWN_STATE
                /\ touchEventType = TOUCH_NO_EVENT

\* a touch-down whose confirming poll sampled the screen untouched
C3_Witness ==
  /\ hist.prevState = CONFIRM_TOUCH_DOWN_STATE
  /\ hist.sinceDown >= TOUCH_DEBOUNCE_PERIOD
  /\ ~sample.touched
  /\ touchState = WAITING_FOR_TOUCH_DOWN_STATE

\* C4 (as claimed): once a touch has been held for d >= 800 ms, the number of
\* AutoRepeat events emitted for it is floor((d - 800) / 120).
C4_RepeatCountIsFloor ==
  (touchState \in HeldStates /\ hist.sincePressed >= TOUCH_AUTO_REPEAT_DELAY) =>
    hist.repeats = (hist.sincePressed - TOUCH_AUTO_REPEAT_DELAY) \div TOUCH_AUTO_REPEAT_RATE

\* C4 (amended): for a touch held down, no AutoRepeat is emitted less than 800 ms
\* after the Pressed event; at a poll d >= 800 ms after it the number emitted is
\* floor((d - 800 - L) / 120) + 1, where L is the total time by which the polls that
\* emitted them came after their deadlines.  With polls on the deadlines (L = 0) that
\* is floor((d - 800) / 120) + 1, also when d - 800 is a multiple of 120.
C4_RepeatCount ==
  touchState \in HeldStates =>
    IF hist.sincePressed < TOUCH_AUTO_REPEAT_DELAY
      THEN hist.repeats = 0
      ELSE /\ hist.late >= 0
           /\ hist.repeats =
                (hist.sincePressed - TOUCH_AUTO_REPEAT_DELAY - hist.late)
                  \div TOUCH_AUTO_REPEAT_RATE + 1

\* a touch held for exactly 800 + 120 ms after Pressed, polled on both deadlines
C4_Witness ==
  /\ touchState \in HeldStates
  /\ hist.sincePressed = TOUCH_AUTO_REPEAT_DELAY + TOUCH_AUTO_REPEAT_RATE
  /\ hist.late = 0
  /\ hist.repeats = 2

\* C5: every AutoRepeat and every Released event carries the coordinates of the
\* Pressed event of its cycle, and those are the coordinates sampled at the poll
\* that emitted Pressed.
C5_EventsCarryPressedCoordinates ==
  /\ touchEventType \in {TOUCH_REPEAT_EVENT, TOUCH_RELEASED_EVENT} =>
       (touchEventX = hist.pressedX /\ touchEventY = hist.pressedY)
  /\ touchEventType = TOUCH_PUSHED_EVENT =>
       (touchEventX = sample.x /\ touchEventY = sample.y)

\* a second AutoRepeat of a touch that went down at one point, was confirmed at
\* another and is now sampled away from where it was confirmed
C5_Witness ==
  /\ touchEventType = TOUCH_REPEAT_EVENT
  /\ hist.repeats = 2
  /\ sample.touched
  /\ sample.x # hist.pressedX
  /\ hist.downX # hist.pressedX

\* C6: a poll that starts in ConfirmUp and samples the screen touched restarts the
\* debounce timer, stays in ConfirmUp and emits None; no poll that starts in
\* ConfirmUp emits Pressed or AutoRepeat.
C6_RetouchInConfirmUpIsBounce ==
  /\ (hist.prevState = CONFIRM_TOUCH_UP_STATE /\ sample.touched) =>
       /\ touchEventStartTime = now
       /\ touchState = CONFIRM_TOUCH_UP_STATE
       /\ touchEventType = TOUCH_NO_EVENT
  /\ hist.prevState = CONFIRM_TOUCH_UP_STATE =>
       touchEventType \notin {TOUCH_PUSHED_EVENT, TOUCH_REPEAT_EVENT}

\* a re-touch in ConfirmUp that has lasted the whole debounce period
C6_Witness ==
  /\ hist.prevState = CONFIRM_TOUCH_UP_STATE
  /\ touchState = CONFIRM_TOUCH_UP_STATE
  /\ sample.touched
  /\ hist.stretch >= TOUCH_DEBOUNCE_PERIOD

\* ---------------------------------------------------------------------------
\*                     Observations about a menu step
\* ---------------------------------------------------------------------------

\* the step is one iteration of the while loop of displayAndExecuteMenu
MenuLoopStep == pc = "displayAndExecuteMenu" /\ elapsed' # elapsed

\* the event lies inside the rectangle
InRect(event, rect) ==
  /\ event.touchEventX >= rect.buttonX
  /\ event.touchEventX <= rect.buttonX + rect.buttonWidth - 1
  /\ event.touchEventY >= rect.buttonY
  /\ event.touchEventY <= rect.buttonY + rect.buttonHeight - 1

\* the items of a table
ItemsOf(table) == 1 .. CountButtonsFrom(table, 1)

\* the items of the table whose button rectangle holds the event
ItemsHit(table, event) ==
  {idx \in ItemsOf(table) : InRect(event, getMenuButtonSizeAndLocation(table, idx))}

\* the step polled a Released event inside the title bar's Back button
BackReleased ==
  /\ touchEventType' = TOUCH_RELEASED_EVENT
  /\ InRect(PolledEvent, getBackButtonSizeAndLocation)

\* the button of an item as drawMenuItem draws it
ButtonOf(table, idx, selected) ==
  LET item == TableItem(table, idx)
      rect == getMenuButtonSizeAndLocation(table, idx)
  IN [buttonX |-> rect.buttonX, buttonY |-> rect.buttonY,
      buttonWidth |-> rect.buttonWidth, buttonHeight |-> rect.buttonHeight,
      labelText |-> item.MenuItemText,
      stateText |-> IF item.MenuItemType = MENU_ITEM_TYPE_TOGGLE
                      THEN (IF ledState THEN "On" ELSE "Off")
                      ELSE "",
      selected |-> selected]

\* the screen shows the table: its title and all of its buttons, none highlighted
Displayed(table) ==
  /\ titleBar = TableItem(table, 0).MenuItemText
  /\ buttons = {ButtonOf(table, idx, FALSE) : idx \in ItemsOf(table)}

\* the step ends with the table on the screen
DisplayedNext(table) == \E t \in MenuNames : t = table /\ Displayed(t)'

\* the calls of the latest step without those made to the sketch's toggle and
\* in-menu callbacks
IsEngineCall(c) == c.op \notin {"menuToggleLEDCallback", "inMenuCallback"}
EngineCalls == SelectSeq(calls, IsEngineCall)

Called(op) == \E i \in DOMAIN calls : calls[i].op = op

\* C7: displayAndExecuteMenu returns to its caller exactly on the loop iterations that
\* poll a Released event inside the Back button while the current table is a main menu
\* whose header's fourth field is NULL; on a main menu whose fourth field is not NULL
\* a Released event at the Back button's place changes neither the current table nor
\* the screen, and no step of a Command callback returns from displayAndExecuteMenu.
C7_ReturnsExactlyOnBackOfUnlinkedMainMenu ==
  [][ /\ (pc # "loop" /\ pc' = "loop") <=>
           /\ MenuLoopStep
           /\ BackReleased
           /\ TableItem(currentMenuTable, 0).MenuItemType = MENU_ITEM_TYPE_MAIN_MENU_HEADER
           /\ TableItem(currentMenuTable, 0).MenuItemSubMenu = NULL
      /\ ( /\ MenuLoopStep
           /\ BackReleased
           /\ TableItem(currentMenuTable, 0).MenuItemType = MENU_ITEM_TYPE_MAIN_MENU_HEADER
           /\ TableItem(currentMenuTable, 0).MenuItemSubMenu # NULL )
         => /\ pc' = "displayAndExecuteMenu"
            /\ currentMenuTable' = currentMenuTable
            /\ DisplayedNext(currentMenuTable)
            /\ UNCHANGED <<titleBar, backButton, buttons>>
    ]_vars

\* displayAndExecuteMenu has returned from mainMenu on a Released event at Back
C7_Witness ==
  /\ pc = "loop"
  /\ currentMenuTable = "mainMenu"
  /\ touchEventType = TOUCH_RELEASED_EVENT
  /\ InRect(Event(touchEventType, touchEventX, touchEventY), getBackButtonSizeAndLocation)
  /\ Called("drawTitleBarBackButton")

\* C8: a loop iteration that polls a Released event inside the Back button while the
\* current table is a sub menu makes the table named in that sub menu's header
\* (fourth field) the current table and draws it, title bar and all buttons, whichever
\* table the sub menu was entered from; displayAndExecuteMenu does not return.
C8_SubMenuBackGoesToHeaderLink ==
  [][ ( /\ MenuLoopStep
        /\ BackReleased
        /\ TableItem(currentMenuTable, 0).MenuItemType = MENU_ITEM_TYPE_SUB_MENU_HEADER )
      => /\ currentMenuTable' = TableItem(currentMenuTable, 0).MenuItemSubMenu
         /\ Called("selectAndDrawMenu")'
         /\ DisplayedNext(TableItem(currentMenuTable, 0).MenuItemSubMenu)
         /\ pc' = "displayAndExecuteMenu"
    ]_vars

\* Back on settingsMenu, entered from stationMenu, has brought up mainMenu
C8_Witness ==
  /\ pc = "displayAndExecuteMenu"
  /\ currentMenuTable = "mainMenu"
  /\ enteredFrom = "stationMenu"
  /\ touchEventType = TOUCH_RELEASED_EVENT
  /\ InRect(Event(touchEventType, touchEventX, touchEventY), getBackButtonSizeAndLocation)
  /\ Called("selectAndDrawMenu")
  /\ Displayed("mainMenu")

\* C9: a loop iteration that polls a Released event inside the button of a Sub menu item
\* makes the table linked in the item's fourth field the current table and draws it,
\* title bar and all buttons; a Released event inside the button of a Command or Toggle
\* item leaves the current table as it is, and so does every step of a Command callback,
\* its return included.
C9_SubMenuItemSelectsLinkedTable ==
  [][ /\ (MenuLoopStep /\ touchEventType' = TOUCH_RELEASED_EVENT) =>
           \A idx \in ItemsHit(currentMenuTable, PolledEvent) :
              IF TableItem(currentMenuTable, idx).MenuItemType = MENU_ITEM_TYPE_SUB_MENU
                THEN /\ currentMenuTable' = TableItem(currentMenuTable, idx).MenuItemSubMenu
                     /\ DisplayedNext(TableItem(currentMenuTable, idx).MenuItemSubMenu)
                ELSE currentMenuTable' = currentMenuTable
      /\ pc = "command" => currentMenuTable' = currentMenuTable
    ]_vars

\* the Servo item of settingsMenu has been executed and servoMenu is on the screen
C9_Witness ==
  /\ pc = "displayAndExecuteMenu"
  /\ currentMenuTable = "servoMenu"
  /\ enteredFrom = "settingsMenu"
  /\ touchEventType = TOUCH_RELEASED_EVENT
  /\ Called("executeMenuItem")
  /\ Displayed("servoMenu")

\* C10: in the menu loop executeMenuItem is called only for a Released event that lies
\* inside the button rectangle of the item executed; a Pushed event inside an item's
\* button makes exactly one engine call, drawMenuItem of that item highlighted, and
\* changes nothing on the screen but that button; a Released event inside an item's
\* button calls drawMenuItem of that item unhighlighted and then executeMenuItem of that
\* item; a Repeat event or no event makes no engine call and leaves the screen as it is.
C10_DispatchOnlyOnRelease ==
  [][ MenuLoopStep =>
        /\ \A i \in DOMAIN calls' :
             calls'[i].op = "executeMenuItem" =>
               /\ touchEventType' = TOUCH_RELEASED_EVENT
               /\ calls'[i].idx \in ItemsHit(currentMenuTable, PolledEvent)
        /\ \A idx \in ItemsHit(currentMenuTable, PolledEvent) :
             /\ touchEventType' = TOUCH_PUSHED_EVENT =>
                  /\ EngineCalls' = <<[op |-> "drawMenuItem", idx |-> idx, flag |-> TRUE,
                                       text |-> TableItem(currentMenuTable, idx).MenuItemText]>>
                  /\ buttons' = (buttons \ {ButtonOf(currentMenuTable, idx, FALSE)})
                                  \cup {ButtonOf(currentMenuTable, idx, TRUE)}
                  /\ UNCHANGED <<pc, currentMenuTable, titleBar, backButton, ledState>>
             /\ touchEventType' = TOUCH_RELEASED_EVENT =>
                  /\ Len(EngineCalls') >= 2
                  /\ SubSeq(EngineCalls', 1, 2) =
                       <<[op |-> "drawMenuItem", idx |-> idx, flag |-> FALSE,
                          text |-> TableItem(currentMenuTable, idx).MenuItemText],
                         [op |-> "executeMenuItem", idx |-> idx, flag |-> FALSE,
                          text |-> TableItem(currentMenuTable, idx).MenuItemText]>>
        /\ touchEventType' \in {TOUCH_REPEAT_EVENT, TOUCH_NO_EVENT} =>
             /\ EngineCalls' = <<>>
             /\ UNCHANGED <<pc, currentMenuTable, titleBar, backButton, buttons, ledState>>
    ]_vars

\* a Pushed event has highlighted the button it lies in, and nothing was executed
C10_Witness ==
  /\ pc = "displayAndExecuteMenu"
  /\ touchEventType = TOUCH_PUSHED_EVENT
  /\ \E idx \in ItemsOf(currentMenuTable) :
       /\ InRect(Event(touchEventType, touchEventX, touchEventY),
                 getMenuButtonSizeAndLocation(currentMenuTable, idx))
       /\ ButtonOf(currentMenuTable, idx, TRUE) \in buttons
  /\ ~Called("executeMenuItem")

\* how many of the calls of the latest step were calls of op
CountCalls(op) == Cardinality({i \in DOMAIN calls : calls[i].op = op})

\* the functions of the Command items of the tables
CommandFunctions == {"commandGettsburgAddress", "commandCountTo1"}

\* C11: a loop iteration that polls a Released event inside the button of a Command item
\* calls that item's function exactly once and neither the in-menu callback nor
\* selectAndDrawMenu; a Command callback is entered in no other way.  While the callback
\* runs no item is executed, no Command function is called again, no in-menu callback
\* is called, nothing of the menu is drawn and the current table stays; the step in
\* which the callback returns draws the current table, title bar and all buttons,
\* before the in-menu callback and before the next poll of the menu loop.
C11_CommandCallbackIsSynchronous ==
  [][ /\ (MenuLoopStep /\ touchEventType' = TOUCH_RELEASED_EVENT) =>
           \A idx \in ItemsHit(currentMenuTable, PolledEvent) :
              TableItem(currentMenuTable, idx).MenuItemType = MENU_ITEM_TYPE_COMMAND =>
                /\ CountCalls(TableItem(currentMenuTable, idx).MenuItemFunction)' = 1
                /\ pc' = "command"
                /\ running' = TableItem(currentMenuTable, idx).MenuItemFunction
                /\ ~Called("inMenuCallback")'
                /\ ~Called("selectAndDrawMenu")'
      /\ (pc # "command" /\ pc' = "command") =>
           /\ MenuLoopStep
           /\ touchEventType' = TOUCH_RELEASED_EVENT
           /\ \E idx \in ItemsHit(currentMenuTable, PolledEvent) :
                TableItem(currentMenuTable, idx).MenuItemType = MENU_ITEM_TYPE_COMMAND
      /\ pc = "command" =>
           /\ ~Called("executeMenuItem")'
           /\ \A f \in CommandFunctions : ~Called(f)'
           /\ currentMenuTable' = currentMenuTable
           /\ IF pc' = "command"
                THEN /\ running' = running
                     /\ ~Called("inMenuCallback")'
                     /\ ~Called("selectAndDrawMenu")'
                     /\ ~Called("drawMenuItem")'
                ELSE /\ pc' = "displayAndExecuteMenu"
                     /\ running' = NULL
                     /\ CountCalls("selectAndDrawMenu")' = 1
                     /\ DisplayedNext(currentMenuTable)
                     /\ \A i \in DOMAIN calls' :
                          calls'[i].op = "inMenuCallback" => i = Len(calls')
    ]_vars

\* commandCountTo1, started by a click on its item, has returned and the menu it was
\* started from is on the screen again
C11_Witness ==
  /\ pc = "displayAndExecuteMenu"
  /\ running = NULL
  /\ touchEventType = TOUCH_RELEASED_EVENT
  /\ \E idx \in ItemsHit(currentMenuTable, Event(touchEventType, touchEventX, touchEventY)) :
       TableItem(currentMenuTable, idx).MenuItemFunction = "commandCountTo1"
  /\ calls # <<>>
  /\ calls[1].op = "selectAndDrawMenu"
  /\ Displayed(currentMenuTable)

\* the calls of the toggle callback made by the latest step with the flag set
ChangeRequests ==
  {i \in DOMAIN calls : calls[i].op = "menuToggleLEDCallback" /\ calls[i].flag}

\* the buttons on the screen other than the one of the item
OtherButtons(table, idx) ==
  {b \in buttons : ~Overlap(b, getMenuButtonSizeAndLocation(table, idx))}

\* C12: the toggle callback is called with toggleSelectNextStateFlg set only in a loop
\* iteration that polls a Released event inside the button of a Toggle item, and there
\* exactly once; every call of the callback that drawMenuItem makes (menu display, menu
\* redraw, highlight on Pushed, redraw after the click) has the flag clear and leaves
\* the state; a click on a Toggle item advances the state once, makes the engine calls
\* drawMenuItem, executeMenuItem, drawMenuItem for that item only, leaves the other
\* buttons and the current table as they are and shows the new state on the button.
C12_ToggleChangesStateOnlyOnClick ==
  [][ /\ ChangeRequests' # {} =>
           /\ Cardinality(ChangeRequests') = 1
           /\ MenuLoopStep
           /\ touchEventType' = TOUCH_RELEASED_EVENT
           /\ \E idx \in ItemsHit(currentMenuTable, PolledEvent) :
                TableItem(currentMenuTable, idx).MenuItemType = MENU_ITEM_TYPE_TOGGLE
      /\ \A i \in DOMAIN calls' :
           (calls'[i].op = "menuToggleLEDCallback" /\ i > 1) =>
              IF calls'[i - 1].op = "drawMenuItem"
                THEN ~calls'[i].flag
                ELSE calls'[i].flag /\ calls'[i - 1].op = "executeMenuItem"
      /\ ChangeRequests' = {} => ledState' = ledState
      /\ (MenuLoopStep /\ touchEventType' = TOUCH_RELEASED_EVENT) =>
           \A idx \in ItemsHit(currentMenuTable, PolledEvent) :
              TableItem(currentMenuTable, idx).MenuItemType = MENU_ITEM_TYPE_TOGGLE =>
                LET drawn == [op |-> "drawMenuItem", idx |-> idx, flag |-> FALSE,
                              text |-> TableItem(currentMenuTable, idx).MenuItemText]
                    executed == [op |-> "executeMenuItem", idx |-> idx, flag |-> FALSE,
                                 text |-> TableItem(currentMenuTable, idx).MenuItemText]
                IN /\ Cardinality(ChangeRequests') = 1
                   /\ EngineCalls' = <<drawn, executed, drawn>>
                   /\ ledState' = ~ledState
                   /\ currentMenuTable' = currentMenuTable
                   /\ pc' = pc
                   /\ OtherButtons(currentMenuTable, idx)' = OtherButtons(currentMenuTable, idx)
                   /\ \E t \in MenuNames :
                        t = currentMenuTable /\ (ButtonOf(t, idx, FALSE) \in buttons)'
                   /\ UNCHANGED <<titleBar, backButton>>
    ]_vars

\* a click on the LED item has switched the LED on and the button says so
C12_Witness ==
  /\ pc = "displayAndExecuteMenu"
  /\ touchEventType = TOUCH_RELEASED_EVENT
  /\ ChangeRequests # {}
  /\ ledState
  /\ \E b \in buttons : b.labelText = "LED" /\ b.stateText = "On" /\ ~b.selected

\* the step polled a Released event inside a Back button that is on the title bar
BackButtonClicked ==
  buttonTypeOnTitleBar = TITLE_BAR_BUTTON_TYPE_BACK /\ BackReleased

\* C13 as stated: with an in-menu callback registered, every iteration of the menu loop
\* after which the menu loop goes on calls it exactly once, the iterations that handle
\* an event included.
C13_CallbackOncePerPoll ==
  [][ (MenuLoopStep /\ inMenuCallbackFunction # NULL /\ pc' = "displayAndExecuteMenu")
        => CountCalls("inMenuCallback")' = 1
    ]_vars

\* C13: with an in-menu callback registered, an iteration of the menu loop calls it
\* exactly once, after the event was handled, unless the iteration handles a click on
\* the Back button or enters a Command callback: an iteration that handles a Back click
\* does not call it at all, and the iteration that enters a Command callback calls it
\* once when that callback has returned and the menu is drawn again, not before; no
\* other step calls it, and nothing calls it while none is registered.
C13_CallbackOncePerPollButNotOnBack ==
  [][ /\ inMenuCallbackFunction = NULL => CountCalls("inMenuCallback")' = 0
      /\ inMenuCallbackFunction # NULL =>
           CountCalls("inMenuCallback")' =
             IF MenuLoopStep
               THEN (IF BackButtonClicked \/ pc' = "command" THEN 0 ELSE 1)
               ELSE (IF pc = "command" /\ pc' = "displayAndExecuteMenu" THEN 1 ELSE 0)
      /\ \A i \in DOMAIN calls' :
           calls'[i].op = "inMenuCallback" => i = Len(calls')
    ]_vars

\* with an in-menu callback registered, Back was clicked on a sub menu: the parent is
\* drawn and the callback was not called
C13_Witness ==
  /\ pc = "displayAndExecuteMenu"
  /\ inMenuCallbackFunction # NULL
  /\ touchEventType = TOUCH_RELEASED_EVENT
  /\ InRect(Event(touchEventType, touchEventX, touchEventY), getBackButtonSizeAndLocation)
  /\ calls # <<>>
  /\ calls[1].op = "drawTitleBarBackButton"
  /\ Called("selectAndDrawMenu")
  /\ ~Called("inMenuCallback")

\* the table is a main menu whose header's fourth field is not NULL
SelfLinkedMainMenu(table) ==
  /\ TableItem(table, 0).MenuItemType = MENU_ITEM_TYPE_MAIN_MENU_HEADER
  /\ TableItem(table, 0).MenuItemSubMenu # NULL

\* the title bar shows the table's title, with an unhighlighted Back button unless the
\* table is a main menu whose fourth field is not NULL, and then with no button
TitleBarOf(table) ==
  /\ titleBar = TableItem(table, 0).MenuItemText
  /\ IF SelfLinkedMainMenu(table)
       THEN buttonTypeOnTitleBar = TITLE_BAR_BUTTON_TYPE_NONE /\ backButton = "none"
       ELSE buttonTypeOnTitleBar = TITLE_BAR_BUTTON_TYPE_BACK /\ backButton = "normal"

\* C14: every step in which the engine draws a table (first display, Sub menu item, Back
\* on a sub menu, redisplay after a Command) ends with the title bar showing that
\* table's title and a Back button, unless the table is a main menu whose header's
\* fourth field is not NULL, and then showing no Back button; and whenever the menu loop
\* is about to poll, a Back button is on the title bar exactly if the current table is
\* not such a main menu.
C14_BackButtonUnlessSelfLinkedMainMenu ==
  [][ /\ Called("selectAndDrawMenu")' =>
           \E t \in MenuNames : t = currentMenuTable' /\ TitleBarOf(t)'
      /\ pc' = "displayAndExecuteMenu" =>
           /\ (backButton' # "none") <=> ~SelfLinkedMainMenu(currentMenuTable')
           /\ (buttonTypeOnTitleBar' = TITLE_BAR_BUTTON_TYPE_BACK)
                <=> ~SelfLinkedMainMenu(currentMenuTable')
    ]_vars

\* commandCountTo1, which draws a title bar without a button, has returned to
\* settingsMenu, and the Back button is on the title bar again
C14_Witness ==
  /\ pc = "displayAndExecuteMenu"
  /\ currentMenuTable = "settingsMenu"
  /\ calls # <<>>
  /\ calls[1].op = "selectAndDrawMenu"
  /\ touchEventType = TOUCH_RELEASED_EVENT
  /\ ItemsHit(currentMenuTable, Event(touchEventType, touchEventX, touchEventY)) = {1}
  /\ TitleBarOf("settingsMenu")
  /\ backButton = "normal"

\* ---------------------------------------------------------------------------------
\* the layout of menu buttons

\* the column count the layout uses for a header's column field
ColumnsUsed == IF layout.columnsField \in 1 .. 4 THEN layout.columnsField ELSE 1

\* the row and the column of button i, counted from 0, in reading order
RowOf(i) == (i - 1) \div ColumnsUsed
ColumnOf(i) == (i - 1) % ColumnsUsed

LaidOut == 1 .. Len(layout.rects)

\* two rectangles have a pixel in common
SharePixel(a, b) ==
  /\ a.buttonWidth > 0 /\ a.buttonHeight > 0 /\ b.buttonWidth > 0 /\ b.buttonHeight > 0
  /\ a.buttonX <= b.buttonX + b.buttonWidth - 1 /\ b.buttonX <= a.buttonX + a.buttonWidth - 1
  /\ a.buttonY <= b.buttonY + b.buttonHeight - 1 /\ b.buttonY <= a.buttonY + a.buttonHeight - 1

\* C15: for a column count in 1..4 and any button count, the rectangles computed for the
\* buttons of one table all have the same width and the same height, no two of them
\* have a pixel in common, a button and its right-hand neighbour on the same row are
\* 10 pixels apart, and buttons on consecutive rows are 10 pixels apart vertically while
\* buttons of one row share their top edge (a row holds the column count of buttons
\* in reading order, so 6 buttons in 2 columns are 3 rows of 2).
C15_ButtonsSameSizeApartByGap ==
  layout.columnsField \in 1 .. 4 =>
    \A i, j \in LaidOut :
      LET a == layout.rects[i]
          b == layout.rects[j]
      IN /\ a.buttonWidth = b.buttonWidth
         /\ a.buttonHeight = b.buttonHeight
         /\ i # j => ~SharePixel(a, b)
         /\ RowOf(i) = RowOf(j) => a.buttonY = b.buttonY
         /\ (RowOf(i) = RowOf(j) /\ j = i + 1) =>
              b.buttonX - (a.buttonX + a.buttonWidth) = 10
         /\ RowOf(j) = RowOf(i) + 1 =>
              b.buttonY - (a.buttonY + a.buttonHeight) = 10

\* the 6 buttons of a table with 2 columns are laid out: 3 rows of 2 buttons of 144 by 55
C15_Witness ==
  /\ layout.buttonCount = 6
  /\ layout.columnsField = 2
  /\ Len(layout.rects) = 6
  /\ {RowOf(i) : i \in LaidOut} = {0, 1, 2}
  /\ \A r \in {0, 1, 2} : Cardinality({i \in LaidOut : RowOf(i) = r}) = 2
  /\ layout.rects[1].buttonWidth = 144 /\ layout.rects[1].buttonHeight = 55
  /\ layout.rects[5].buttonY = layout.rects[6].buttonY
  /\ layout.rects[6].buttonX > layout.rects[5].buttonX

\* the rows used by the layout, and the first and last button of a full row
RowsUsed == (layout.buttonCount + ColumnsUsed - 1) \div ColumnsUsed
FirstOfRow(r) == r * ColumnsUsed + 1
LastOfRow(r) == r * ColumnsUsed + ColumnsUsed
FullRowsLaidOut == {r \in 0 .. RowsUsed - 1 : LastOfRow(r) \in LaidOut}
LayoutComplete == Len(layout.rects) = layout.buttonCount

\* the space left between the display space's edges and the buttons
LeftPadding(r) == layout.rects[FirstOfRow(r)].buttonX - displaySpaceLeftX
RightPadding(r) ==
  (displaySpaceLeftX + displaySpaceWidth)
    - (layout.rects[LastOfRow(r)].buttonX + layout.rects[LastOfRow(r)].buttonWidth)
TopPadding == layout.rects[1].buttonY - displaySpaceTopY
BottomPadding ==
  (displaySpaceTopY + displaySpaceHeight)
    - (layout.rects[layout.buttonCount].buttonY + layout.rects[layout.buttonCount].buttonHeight)

\* C16 as stated: for a column count in 1..4 and any button count, the buttons of a full
\* row, the 10 pixel gaps between them and 10 pixels of padding on the left and on the
\* right are exactly the width of the display space, and the rows, the gaps between
\* them and 10 pixels of padding above and below are exactly its height.
C16_PaddingIsExactlyTen ==
  layout.columnsField \in 1 .. 4 =>
    /\ \A r \in FullRowsLaidOut : LeftPadding(r) = 10 /\ RightPadding(r) = 10
    /\ LayoutComplete => TopPadding = 10 /\ BottomPadding = 10

\* C16: for a column count in 1..4 and any button count, the buttons of a full row, the
\* 10 pixel gaps between them and the paddings on the left and on the right add up to
\* the width of the display space, and the rows, the gaps between them and the paddings
\* above and below add up to its height; the two paddings of a direction differ by at
\* most one pixel; if the display space has room for the gaps and 20 pixels of padding
\* they are both at least 10 pixels and exceed 20 pixels together by less than the
\* number of columns (of rows), the pixels the integer division leaves over going to
\* the padding; if it has no room for them they are at most 20 pixels together.
C16_LeftOverPixelsGoToPadding ==
  layout.columnsField \in 1 .. 4 =>
    /\ \A r \in FullRowsLaidOut :
         LET w == layout.rects[FirstOfRow(r)].buttonWidth
             room == displaySpaceWidth - 20 - 10 * (ColumnsUsed - 1)
         IN /\ LeftPadding(r) + w * ColumnsUsed + 10 * (ColumnsUsed - 1) + RightPadding(r)
                 = displaySpaceWidth
            /\ RightPadding(r) - LeftPadding(r) \in {-1, 0, 1}
            /\ room >= 0 =>
                 /\ LeftPadding(r) >= 10 /\ RightPadding(r) >= 10
                 /\ LeftPadding(r) + RightPadding(r) - 20 \in 0 .. ColumnsUsed - 1
            /\ room < 0 => LeftPadding(r) + RightPadding(r) <= 20
    /\ LayoutComplete =>
         LET h == layout.rects[1].buttonHeight
             room == displaySpaceHeight - 20 - 10 * (RowsUsed - 1)
         IN /\ TopPadding + h * RowsUsed + 10 * (RowsUsed - 1) + BottomPadding
                 = displaySpaceHeight
            /\ BottomPadding - TopPadding \in {-1, 0, 1}
            /\ room >= 0 =>
                 /\ TopPadding >= 10 /\ BottomPadding >= 10
                 /\ TopPadding + BottomPadding - 20 \in 0 .. RowsUsed - 1
            /\ room < 0 => TopPadding + BottomPadding <= 20

\* 5 buttons in 3 columns are laid out: the full row has 11 pixels of padding on both
\* sides and the two rows have 10 pixels above and 11 pixels below
C16_Witness ==
  /\ layout.buttonCount = 5
  /\ layout.columnsField = 3
  /\ LayoutComplete
  /\ FullRowsLaidOut = {0}
  /\ LeftPadding(0) = 11 /\ RightPadding(0) = 11
  /\ TopPadding = 10 /\ BottomPadding = 11

\* the space left of the first and right of the last button laid out on row r
RowLeftMargin(r) ==
  LET first == CHOOSE i \in LaidOut : RowOf(i) = r /\ ColumnOf(i) = 0
  IN layout.rects[first].buttonX - displaySpaceLeftX
RowRightMargin(r) ==
  LET last == CHOOSE i \in LaidOut : RowOf(i) = r /\ \A j \in LaidOut : RowOf(j) = r => j <= i
  IN (displaySpaceLeftX + displaySpaceWidth)
       - (layout.rects[last].buttonX + layout.rects[last].buttonWidth)

\* the last row holds fewer buttons than the column count
PartialLastRow == layout.buttonCount % ColumnsUsed # 0

\* C17: when the last row of a table holds fewer buttons than the column count, its
\* buttons have the width of the buttons of every other row, stand 10 pixels apart and,
\* once all are laid out, leave margins on the left and on the right of the row that
\* differ by at most one pixel, so the row is neither left-justified nor stretched; all
\* full rows start at the same left edge.
C17_PartialLastRowIsCentered ==
  layout.columnsField \in 1 .. 4 =>
    /\ \A r, q \in FullRowsLaidOut :
         layout.rects[FirstOfRow(r)].buttonX = layout.rects[FirstOfRow(q)].buttonX
    /\ (LayoutComplete /\ PartialLastRow) =>
         LET r == RowsUsed - 1
             onRow == {i \in LaidOut : RowOf(i) = r}
         IN /\ Cardinality(onRow) = layout.buttonCount % ColumnsUsed
            /\ \A i \in onRow : layout.rects[i].buttonWidth = layout.rects[1].buttonWidth
            /\ \A i, j \in onRow : j = i + 1 =>
                 layout.rects[j].buttonX
                   = layout.rects[i].buttonX + layout.rects[i].buttonWidth + 10
            /\ RowRightMargin(r) - RowLeftMargin(r) \in {-1, 0, 1}
            /\ \A q \in FullRowsLaidOut : RowLeftMargin(r) > RowLeftMargin(q)

\* 7 buttons in 3 columns are laid out: the two full rows start 11 pixels from the left
\* edge and the single button of the third row has 113 pixels on both sides
C17_Witness ==
  /\ layout.buttonCount = 7
  /\ layout.columnsField = 3
  /\ LayoutComplete
  /\ FullRowsLaidOut = {0, 1}
  /\ RowLeftMargin(0) = 11 /\ RowLeftMargin(1) = 11
  /\ RowOf(7) = 2
  /\ layout.rects[7].buttonWidth = 92
  /\ RowLeftMargin(2) = 113 /\ RowRightMargin(2) = 113

\* a rectangle of positive size with all its pixels in the display space
InsideDisplaySpace(rect) ==
  /\ rect.buttonWidth > 0
  /\ rect.buttonHeight > 0
  /\ rect.buttonX >= displaySpaceLeftX
  /\ rect.buttonX + rect.buttonWidth <= displaySpaceLeftX + displaySpaceWidth
  /\ rect.buttonY >= displaySpaceTopY
  /\ rect.buttonY + rect.buttonHeight <= displaySpaceTopY + displaySpaceHeight

\* C18: for every button count and a column count in 1..4, every button computed has a
\* positive width and a positive height and lies entirely inside the display space,
\* and it is as wide as, and no taller than, the buttons of the same table with one
\* button less.
C18_AnyNumberOfButtonsFitsTheScreen ==
  layout.columnsField \in 1 .. 4 =>
    \A i \in LaidOut :
      /\ InsideDisplaySpace(layout.rects[i])
      /\ layout.buttonCount > 1 =>
           LET fewer == MenuButtonLayout(layout.buttonCount - 1, layout.columnsField, 1)
           IN /\ layout.rects[i].buttonWidth = fewer.buttonWidth
              /\ layout.rects[i].buttonHeight <= fewer.buttonHeight

\* a table of 18 buttons in one column is laid out with buttons of no height
C18_ButtonsOfNoHeight ==
  /\ layout.buttonCount = 18
  /\ layout.columnsField = 1
  /\ LayoutComplete
  /\ \A i \in LaidOut : layout.rects[i].buttonHeight = 0

\* ---------------------------------------------------------------------------------
\* the Number Box

\* the button of the Number Box the latest event lies in: 1 for Up, -1 for Down, else 0
ButtonTouched ==
  LET at == getNumberBoxCoordinates(numberBox)
      onButtons == touchEventY >= at.topY /\ touchEventY <= at.topY + at.height - 1
  IN IF onButtons /\ touchEventX >= at.upButtonX
          /\ touchEventX <= at.upButtonX + at.buttonWidth - 1 THEN 1
     ELSE IF onButtons /\ touchEventX >= at.downButtonX
          /\ touchEventX <= at.downButtonX + at.buttonWidth - 1 THEN -1
     ELSE 0

\* C19: the value of a Number Box that starts between minimumValue and maximumValue
\* stays between them whatever Pressed and AutoRepeat events its Up and Down buttons
\* receive.
C19_ValueStaysWithinLimits ==
  /\ numberBox.value >= numberBox.minimumValue
  /\ numberBox.value <= numberBox.maximumValue

\* the Number Box that counts up to the largest int has been stepped up past it and
\* shows a negative number
C19_ValueWrapped ==
  /\ numberBox.maximumValue = INT_MAX
  /\ numberBox.value < numberBox.minimumValue
  /\ numberBoxShown.number = numberBox.value

\* the value v of a step up held at maximumValue, of a step down held at minimumValue
WithinLimit(v, step) ==
  IF step > 0 /\ v > numberBox.maximumValue THEN numberBox.maximumValue
  ELSE IF step < 0 /\ v < numberBox.minimumValue THEN numberBox.minimumValue
  ELSE v

\* the sum of the value and a step is an int
NoOverflow(step) ==
  /\ step > 0 => numberBox.value <= INT_MAX - step
  /\ step < 0 => numberBox.value >= INT_MIN - step

\* C20: a pass of the loop that polls a Pressed event on the Up or the Down button asks
\* for a step of stepAmount up or down and sets numberBoxRepeatCount to 0; a pass that
\* polls an AutoRepeat event on the button asks for a step of stepAmount times
\* (n \div 16) + 1, where n counts the AutoRepeat events since the Pressed event, this
\* one included, and numberBoxRepeatCount is n; any other pass asks for no step. The
\* value changes by the step asked for, a step up being held at maximumValue and a
\* step down at minimumValue, as long as the sum of value and step is an int.
C20_StepGrowsEvery16Repeats ==
  [][ LET asked == press'.asked
          n == press'.repeats
          button == ButtonTouched'
      IN /\ (touchEventType' = TOUCH_PUSHED_EVENT /\ button # 0) =>
              /\ asked = button * numberBox.stepAmount
              /\ n = 0
              /\ numberBoxRepeatCount' = 0
         /\ (touchEventType' = TOUCH_REPEAT_EVENT /\ button # 0) =>
              /\ asked = button * numberBox.stepAmount * ((n \div 16) + 1)
              /\ n = press.repeats + 1
              /\ numberBoxRepeatCount' = n
         /\ (touchEventType' \notin {TOUCH_PUSHED_EVENT, TOUCH_REPEAT_EVENT} \/ button = 0) =>
              /\ asked = 0
              /\ numberBoxRepeatCount' = numberBoxRepeatCount
         /\ NoOverflow(asked) =>
              numberBox'.value = WithinLimit(numberBox.value + asked, asked)
    ]_vars

\* the 16th AutoRepeat event of a touch on the Up button of the README's Number Box has
\* asked for a step of 4, after one step of 2 for the Pressed event and 15 for the
\* AutoRepeat events before
C20_Witness ==
  /\ numberBox.stepAmount = 2
  /\ touchEventType = TOUCH_REPEAT_EVENT
  /\ ButtonTouched = 1
  /\ press.repeats = 16
  /\ numberBoxRepeatCount = 16
  /\ press.asked = 4
  /\ numberBox.value = 16 * 2 + 4

\* the sum of the steps of the first n AutoRepeat events of a press, in stepAmounts
RECURSIVE MultipliersUpTo(_)
MultipliersUpTo(n) == IF n = 0 THEN 0 ELSE MultipliersUpTo(n - 1) + ((n \div 16) + 1)

\* the Up button is held and no step has reached maximumValue
HeldOnUp ==
  /\ touchState \in HeldStates
  /\ ButtonTouched = 1
  /\ numberBox.stepAmount > 0
  /\ numberBox.value < numberBox.maximumValue
  /\ numberBox.value >= numberBox.minimumValue

\* C21 as stated: once the Up button has been held for 16 auto repeat periods the value
\* has increased by more than 16 stepAmounts.
C21_Held16PeriodsGainsOver16Steps ==
  (HeldOnUp /\ press.since >= 16 * TOUCH_AUTO_REPEAT_RATE) =>
    numberBox.value - press.startValue > 16 * numberBox.stepAmount

\* C21: while the Up button is held and no step has reached maximumValue, the value has
\* increased since the Pressed event by stepAmount for the Pressed event plus
\* stepAmount * ((i \div 16) + 1) for the i-th AutoRepeat event; the increase is more
\* than 16 stepAmounts exactly from the 16th AutoRepeat event on, and that event comes
\* no sooner than the auto repeat delay and 15 auto repeat periods after the Pressed
\* event.
C21_GainIsSumOfSteps ==
  HeldOnUp =>
    /\ numberBox.value - press.startValue
         = numberBox.stepAmount * (1 + MultipliersUpTo(press.repeats))
    /\ (numberBox.value - press.startValue > 16 * numberBox.stepAmount)
         <=> press.repeats >= 16
    /\ press.repeats >= 16 =>
         press.since >= TOUCH_AUTO_REPEAT_DELAY + 15 * TOUCH_AUTO_REPEAT_RATE

\* the Up button of the README's Number Box has been held for 16 auto repeat periods
\* since its Pressed event: 10 AutoRepeat events have come and the value has increased
\* by 22
C21_Witness ==
  /\ HeldOnUp
  /\ numberBox.stepAmount = 2
  /\ press.since = 16 * TOUCH_AUTO_REPEAT_RATE
  /\ press.repeats = 10
  /\ numberBox.value - press.startValue = 22

\* C22: a pass of the loop in which checkForNumberBoxTouched returns true has changed
\* the value of the Number Box, and a pass in which it returns false has not.
C22_ReturnsTrueExactlyOnChange ==
  [][press'.returned <=> (numberBox'.value # numberBox.value)]_vars

\* an AutoRepeat event on the Up button has found the value at maximumValue, and the
\* call has returned true
C22_TrueWithoutChange ==
  /\ touchEventType = TOUCH_REPEAT_EVENT
  /\ ButtonTouched = 1
  /\ numberBox.value = numberBox.maximumValue
  /\ numberBox.maximumValue = 200
  /\ press.asked > 0
  /\ press.repeats >= 6
  /\ press.returned

\* ---------------------------------------------------------------------------
\*                       Properties of the numeric keypad
\* ---------------------------------------------------------------------------

\* the number that the entry buffer reads as
Entered == atof(keypad.valueStr)

\* a < b for decimal numbers: the digits are aligned at the decimal point and compared
\* from the left
DecLess(a, b) ==
  LET wholes == IF Len(a.digits) - a.scale > Len(b.digits) - b.scale
                  THEN Len(a.digits) - a.scale ELSE Len(b.digits) - b.scale
      scale == IF a.scale > b.scale THEN a.scale ELSE b.scale
      Aligned(d) == ZeroPadded(d.digits, wholes + d.scale) \o Zeros(scale - d.scale)
      Smaller(s, t) == \E i \in 1 .. Len(s) : s[i] < t[i] /\ \A j \in 1 .. i - 1 : s[j] = t[j]
      IsZero(d) == \A i \in 1 .. Len(d.digits) : d.digits[i] = 0
  IN IF IsZero(a) /\ IsZero(b) THEN FALSE
     ELSE IF a.neg # b.neg THEN a.neg
     ELSE IF a.neg THEN Smaller(Aligned(b), Aligned(a))
     ELSE Smaller(Aligned(a), Aligned(b))

\* the entered number lies within [minValue, maxValue]
EnteredInRange ==
  /\ ~DecLess(Entered, ToDecimal(keypad.kind, keypad.minValue))
  /\ ~DecLess(ToDecimal(keypad.kind, keypad.maxValue), Entered)

\* C23 (as claimed): OK returns true only when the entered number lies within
\* [minValue, maxValue]; an OK with a number out of range puts the out-of-range message
\* on the title bar and leaves the entry buffer as it is, 1.5 s later the title passed
\* in is shown again, the buffer is still the same and the keypad is in its loop again.
C23_OKAcceptsOnlyInRange ==
  [][/\ (keypad'.pc = "returned" /\ keypad'.returned) =>
          EnteredInRange
     /\ (keypad.pc = "loop" /\ keypad'.pc = "delay") =>
          /\ ~EnteredInRange
          /\ keypad'.title = OutOfRangeTitle
          /\ keypad'.valueStr = keypad.valueStr
          /\ keypad'.shown = keypad.shown
     /\ keypad.pc = "delay" =>
          /\ elapsed' = elapsed + OutOfRangeDelay
          /\ keypad'.title = keypad.titleBar
          /\ keypad'.valueStr = keypad.valueStr
          /\ keypad'.shown = keypad.shown
          /\ keypad'.pc = "loop"]_vars

\* C24 (as claimed): when numericKeyPad has returned false, the variable of the caller
\* holds the value that was passed in.
C24_CancelLeavesValue ==
  (keypad.pc = "returned" /\ ~keypad.returned) => keypad.value = keypad.passedIn

\* C25: the entry buffer has at most one decimal point, a minus sign only as its first
\* character, and at most MAX_CHARACTERS characters.
C25_BufferWellFormed ==
  /\ DotCount(keypad.valueStr) <= 1
  /\ \A i \in 2 .. Len(keypad.valueStr) : keypad.valueStr[i] # "-"
  /\ Len(keypad.valueStr) <= MAX_CHARACTERS

\* the key "5" has been clicked with a full buffer that starts with a minus sign
C25_Witness ==
  /\ keypad.keys = MaxKeys
  /\ touchEventType = TOUCH_RELEASED_EVENT
  /\ touchEventX = Point5.x /\ touchEventY = Point5.y
  /\ Len(keypad.valueStr) = MAX_CHARACTERS
  /\ keypad.valueStr[1] = "-"

\* ---------------------------------------------------------------------------
\*                       Properties of the Selection Box
\* ---------------------------------------------------------------------------

\* the cells of the Selection Box that hold the point of the event polled by the step
CellsAtEvent ==
  {c \in 0 .. countSelectionBoxChoices(selectionBox.box) - 1 :
     LET at == getCoordsOfSelectionBoxCell(selectionBox.box, c)
     IN /\ touchEventX' >= at.X /\ touchEventX' < at.X + at.width
        /\ touchEventY' >= at.Y /\ touchEventY' < at.Y + at.height}

\* C26: checkForSelectionBoxTouched returns true exactly for a Pressed event in a cell
\* other than the selected one, and value is then the index of that cell; a Pressed
\* event in the selected cell returns false, and with a Released, an AutoRepeat or no
\* event the value stays and false is returned.
C26_TrueExactlyOnPressOfOtherCell ==
  [][/\ selectionBox'.returned <=>
          /\ touchEventType' = TOUCH_PUSHED_EVENT
          /\ \E c \in CellsAtEvent : c # selectionBox.box.value
     /\ selectionBox'.returned => selectionBox'.box.value \in CellsAtEvent
     /\ touchEventType' # TOUCH_PUSHED_EVENT =>
          /\ selectionBox'.box.value = selectionBox.box.value
          /\ ~selectionBox'.returned]_vars

\* the selected cell has been pressed again after another cell had been selected
C26_Witness ==
  /\ touchEventType = TOUCH_PUSHED_EVENT
  /\ touchEventX = PointMiddle.x
  /\ selectionBox.box = SelectionBoxOf(1, 3)
  /\ ~selectionBox.returned
  /\ selectionBox.shown = [value |-> 1, touched |-> TRUE]

\* ---------------------------------------------------------------------------
\*                          Properties of the Slider
\* ---------------------------------------------------------------------------

\* the largest integer that is at most a / b, for b > 0
FloorDiv(a, b) == IF a >= 0 THEN a \div b ELSE -((-a + b - 1) \div b)

\* the touch position mapped linearly onto the range of the Slider, rounded down and
\* rounded up to an integer
LinearValues(sl, lcdX) ==
  LET sliderPos == lcdX - (sl.centerX - CDiv(sl.width, 2))
      num == sliderPos * (sl.maximumValue - sl.minimumValue)
  IN {FloorDiv(num, sl.width) + sl.minimumValue,
      -FloorDiv(-num, sl.width) + sl.minimumValue}

Distance(a, b) == IF a >= b THEN a - b ELSE b - a

\* the multiples of step that are nearest to v
NearestMultiples(v, step) ==
  LET below == FloorDiv(v, step) * step
      above == below + step
  IN {m \in {below, above} :
        \A n \in {below, above} : Distance(v, m) <= Distance(v, n)}

\* C27 (as claimed): while the Slider is dragged, its new value is the linear map of the
\* touch position, rounded to the nearest multiple of stepAmount and limited to
\* [minimumValue, maximumValue]; the value is always within these limits.
C27_DraggedValueIsNearestStep ==
  [][/\ (slider.slider.state = 1 /\ sample'.touched) =>
          \E v \in LinearValues(slider.slider, sample'.x) :
            \E m \in NearestMultiples(v, slider.slider.stepAmount) :
              slider'.slider.value = SliderLimited(slider.slider, m)
     /\ slider'.slider.value >= slider.slider.minimumValue
     /\ slider'.slider.value <= slider.slider.maximumValue]_vars

\* C28 (as claimed): the value changes only at a poll that finds the latch at 1; the
\* latch goes from 0 to 1 only at a poll whose touch is in the rectangle around the
\* ball, and that poll leaves the value; a poll that finds the screen untouched sets
\* the latch to 0; and the value changes only under a touch that has been in the
\* rectangle around the ball.
C28_ValueMovesOnlyWhenGrabbed ==
  [][/\ slider'.slider.value # slider.slider.value => slider.slider.state = 1
     /\ (slider.slider.state = 0 /\ slider'.slider.state = 1) =>
          /\ sample'.touched
          /\ OnBall(slider.slider, sample')
          /\ slider'.slider.value = slider.slider.value
     /\ ~sample'.touched => slider'.slider.state = 0
     /\ slider'.slider.value # slider.slider.value => slider'.entered]_vars

\* ---------------------------------------------------------------------------
\*                      Properties of the event of a poll
\* ---------------------------------------------------------------------------

\* C29: every poll leaves exactly one of the four kinds of event, and an event other
\* than None is left only by the poll that makes the transition it stands for: a
\* Pressed event by the poll that confirms the touch-down, a Released event by the poll
\* that confirms the touch-up, an AutoRepeat event by a poll that restarts the repeat
\* timer. So a Pressed or a Released event is never left by two polls in a row, and two
\* AutoRepeat events in a row are a repeat period apart.
C29_OneFreshEventPerPoll ==
  [][/\ touchEventType' \in {TOUCH_NO_EVENT, TOUCH_PUSHED_EVENT, TOUCH_RELEASED_EVENT,
                             TOUCH_REPEAT_EVENT}
     /\ touchEventType' = TOUCH_PUSHED_EVENT =>
          /\ touchState = CONFIRM_TOUCH_DOWN_STATE
          /\ touchState' = WAITING_FOR_TOUCH_UP_STATE
     /\ touchEventType' = TOUCH_RELEASED_EVENT =>
          /\ touchState = CONFIRM_TOUCH_UP_STATE
          /\ touchState' = WAITING_FOR_TOUCH_DOWN_STATE
     /\ touchEventType' = TOUCH_REPEAT_EVENT =>
          /\ touchState \in HeldStates
          /\ touchState' = WAITING_FOR_TOUCH_UP_AFTER_AUTO_REPEAT_STATE
          /\ touchEventStartTime' = now'
     /\ touchEventType = TOUCH_PUSHED_EVENT => touchEventType' # TOUCH_PUSHED_EVENT
     /\ touchEventType = TOUCH_RELEASED_EVENT => touchEventType' # TOUCH_RELEASED_EVENT
     /\ (touchEventType = TOUCH_REPEAT_EVENT /\ touchEventType' = TOUCH_REPEAT_EVENT) =>
          elapsed' - elapsed >= TOUCH_AUTO_REPEAT_RATE]_vars

\* a poll after the one that left the Released event of a touch at PointB has left no
\* event; the coordinates of the Released event are still in place
C29_Witness ==
  /\ hist.prevState = WAITING_FOR_TOUCH_DOWN_STATE
  /\ touchState = WAITING_FOR_TOUCH_DOWN_STATE
  /\ touchEventType = TOUCH_NO_EVENT
  /\ touchEventX = PointB.x /\ touchEventY = PointB.y
  /\ ~sample.touched

\* the event polled by the step lies in the rectangle of the button
EventOn(uiButton) ==
  LET X1 == uiButton.centerX - CDiv(uiButton.width, 2)
      Y1 == uiButton.centerY - CDiv(uiButton.height, 2)
  IN /\ touchEventX' >= X1 /\ touchEventX' < X1 + uiButton.width
     /\ touchEventY' >= Y1 /\ touchEventY' < Y1 + uiButton.height

\* C30: every check of a pass finds the event that getTouchEvents has left, and the
\* event is still the same after the last check; so each check matches the event
\* whatever the checks before it have matched: a Pressed event on the button is matched
\* by checkForButtonFirstTouched and by checkForButtonClicked, whose rectangles are the
\* same, and a Released event on it by checkForButtonClicked.
C30_ChecksLeaveTheEvent ==
  [][/\ \A i \in DOMAIN screen'.seen : screen'.seen[i] = PolledEvent
     /\ Len(screen'.seen) = (IF pc' = "returned" THEN 0 ELSE 2)
     /\ screen'.left = PolledEvent
     /\ screen'.firstTouched
          <=> (touchEventType' = TOUCH_PUSHED_EVENT /\ EventOn(sayHelloButton))
     /\ screen'.clicked
          <=> (touchEventType' = TOUCH_RELEASED_EVENT /\ EventOn(sayHelloButton))
     /\ (touchEventType' = TOUCH_PUSHED_EVENT /\ EventOn(sayHelloButton))
          => sayHelloButton.labelText \in screen'.drawn]_vars

\* a Pressed event on the button has been matched by the first check and has reached
\* the second check, which has left it as well
C30_Witness ==
  /\ touchEventType = TOUCH_PUSHED_EVENT
  /\ touchEventX = PointOnHello.x /\ touchEventY = PointOnHello.y
  /\ screen.firstTouched
  /\ screen.hello
  /\ screen.seen = <<Event(touchEventType, touchEventX, touchEventY),
                     Event(touchEventType, touchEventX, touchEventY)>>
  /\ screen.left = Event(touchEventType, touchEventX, touchEventY)
  /\ screen.drawn = {sayHelloButton.labelText}


\* ---------------------------------------------------------------------------
\*                      Properties of the rectangle hit test
\* ---------------------------------------------------------------------------

\* the current event lies in the rectangle the sketch has asked about, edges included
InAskedRect ==
  /\ screen.rect.rectX1 <= touchEventX /\ touchEventX <= screen.rect.rectX2
  /\ screen.rect.rectY1 <= touchEventY /\ touchEventY <= screen.rect.rectY2

\* checkForTouchEventInRect returns true exactly when the kind of the current event is
\* the kind asked for and its coordinates are in the rectangle, edges included
ReturnsTrueIffMatch ==
  screen.returned <=> (screen.eventType = touchEventType /\ InAskedRect)

\* C31 (as stated): true exactly on a match, and never true while the current event is
\* None. Asked for TOUCH_NO_EVENT the function matches the None event at the coordinates
\* that the event before has left.
C31_NeverTrueOnNone ==
  /\ ReturnsTrueIffMatch
  /\ touchEventType = TOUCH_NO_EVENT => ~screen.returned

\* C31 (amended): checkForTouchEventInRect returns true exactly when the kind of the
\* current event is the kind asked for and the coordinates are in the rectangle, its
\* four edges included; asked for Pressed, Released or AutoRepeat it never returns true
\* while the current event is None.
C31_TrueIffKindAndInclusiveRect ==
  /\ ReturnsTrueIffMatch
  /\ (touchEventType = TOUCH_NO_EVENT /\ screen.eventType # TOUCH_NO_EVENT)
       => ~screen.returned

\* a Released event on the bottom right corner of the rectangle has matched
C31_Witness ==
  /\ screen.returned
  /\ touchEventType = TOUCH_RELEASED_EVENT
  /\ touchEventX = screen.rect.rectX2
  /\ touchEventY = screen.rect.rectY2


\* ---------------------------------------------------------------------------
\*                        Properties of the button checks
\* ---------------------------------------------------------------------------

\* the Pressed event of the latest touch cycle was in the rectangle of the button
PressedOn(uiButton) ==
  LET X1 == uiButton.centerX - CDiv(uiButton.width, 2)
      Y1 == uiButton.centerY - CDiv(uiButton.height, 2)
  IN /\ hist.pressedX >= X1 /\ hist.pressedX < X1 + uiButton.width
     /\ hist.pressedY >= Y1 /\ hist.pressedY < Y1 + uiButton.height

\* C32: checkForButtonClicked returns true exactly when the current event is Released in
\* the rectangle of the button; a Pressed event in it draws the button selected and
\* returns false. Called once per poll it has returned true, when the Released event of
\* a touch cycle has been polled, once if the cycle was pressed in the button and never
\* if it was pressed outside; in no cycle it returns true twice.
C32_TrueOncePerCycleOnTheButton ==
  [][/\ screen'.clicked
          <=> (touchEventType' = TOUCH_RELEASED_EVENT /\ EventOn(sayHelloButton))
     /\ (touchEventType' = TOUCH_PUSHED_EVENT /\ EventOn(sayHelloButton))
          => (sayHelloButton.labelText \in screen'.drawn /\ ~screen'.clicked)
     /\ screen'.trues <= 1
     /\ touchEventType' = TOUCH_RELEASED_EVENT
          => screen'.trues = (IF PressedOn(sayHelloButton)' THEN 1 ELSE 0)]_vars

\* a touch cycle that was pressed on the button has ended: the check has returned true
\* once in this cycle, the button is drawn unselected and "Hello" is blanked
C32_Witness ==
  /\ touchEventType = TOUCH_RELEASED_EVENT
  /\ hist.pressedX = PointOnHello.x
  /\ hist.prevState = CONFIRM_TOUCH_UP_STATE
  /\ screen.trues = 1
  /\ screen.clicked
  /\ ~screen.hello
  /\ screen.drawn = {}

\* C33: checkForButtonAutoRepeat returns true if the current event is AutoRepeat in the
\* rectangle of the button, else false.
C33_TrueExactlyOnAutoRepeat ==
  [][screen'.returned <=> (touchEventType' = TOUCH_REPEAT_EVENT /\ EventOn(okButton))]_vars


\* ---------------------------------------------------------------------------
\*                    Properties of the configuration values
\* ---------------------------------------------------------------------------

\* the number of bytes of the value of a setting
PayloadSize(setting) ==
  CASE setting.type = "byte" -> 1
    [] setting.type = "short" -> 2
    [] setting.type = "int" -> 4
    [] setting.type = "float" -> 4

\* the cells that hold a setting: its address and the bytes of its value after it
CellsOf(setting) == setting.address .. setting.address + PayloadSize(setting)

\* C34: a read of a setting returns the value written last at its address, and the
\* default when none has been written; the byte at the address reads 0xff exactly as
\* long as no value has been written, and a write changes the byte at the address and
\* the bytes of the value after it, nothing else.
C34_ReadReturnsLastWritten ==
  /\ eeprom.read # <<>> =>
       LET i == eeprom.read[1]
       IN eeprom.read[2] = (IF eeprom.saved[i] = <<>> THEN Settings[i].defaultValue
                            ELSE eeprom.saved[i][1])
  /\ \A i \in DOMAIN Settings :
       (eeprom.saved[i] = <<>>) <=> (eeprom.cells[Settings[i].address] = ErasedByte)
  /\ \A i \in DOMAIN Settings :
       eeprom.saved[i] = <<>> => \A a \in CellsOf(Settings[i]) : eeprom.cells[a] = ErasedByte
  /\ \A a \in DOMAIN eeprom.cells :
       (\A i \in DOMAIN Settings : a \notin CellsOf(Settings[i])) => eeprom.cells[a] = ErasedByte

\* the sketch has read -1 for its int, whose four bytes are 0xff, while the float after it
\* has not been written and the short has been written with -32768
C34_Witness ==
  /\ eeprom.read = <<1, -1>>
  /\ eeprom.saved[2] = <<>>
  /\ eeprom.saved[3] = <<-32768>>
  /\ eeprom.cells[EEPROM_X_OFFSET] = 0
  /\ eeprom.cells[EEPROM_X_OFFSET + 4] = ErasedByte


\* ---------------------------------------------------------------------------
\*                       Properties of whole touch cycles
\* ---------------------------------------------------------------------------

\* the latest touch cycle has got its Released event, or there has been no cycle yet
CycleClosed ==
  hist.cycle = <<>> \/ hist.cycle[Len(hist.cycle)] = TOUCH_RELEASED_EVENT

\* C35: the events other than None come in touch cycles: one Pressed, then AutoRepeat
\* events, then one Released. A Pressed event comes only when the cycle before has got
\* its Released event, and an AutoRepeat or a Released event only in a cycle that has got
\* its Pressed event and not yet its Released event.
C35_EventsFormTouchCycles ==
  [][/\ touchEventType' = TOUCH_PUSHED_EVENT => CycleClosed
     /\ touchEventType' \in {TOUCH_REPEAT_EVENT, TOUCH_RELEASED_EVENT} => ~CycleClosed
     /\ hist'.cycle # <<>> =>
          /\ hist'.cycle[1] = TOUCH_PUSHED_EVENT
          /\ \A i \in 2 .. Len(hist'.cycle) :
               \/ hist'.cycle[i] = TOUCH_REPEAT_EVENT
               \/ i = Len(hist'.cycle) /\ hist'.cycle[i] = TOUCH_RELEASED_EVENT]_vars

\* a cycle of a Pressed, an AutoRepeat and a Released event has been emitted
C35_Witness ==
  /\ touchEventType = TOUCH_RELEASED_EVENT
  /\ hist.cycle = <<TOUCH_PUSHED_EVENT, TOUCH_REPEAT_EVENT, TOUCH_RELEASED_EVENT>>


\* ---------------------------------------------------------------------------
\*            Properties of the timing when millis() wraps around
\* ---------------------------------------------------------------------------

\* ms from the latest assignment of touchEventStartTime to the poll of the step
\* (counted up to the auto-repeat delay plus the interval of the poll)
SinceTimerStarted == hist.timer + (elapsed' - elapsed)

\* C38: the debounce and the auto-repeat periods are honoured whatever millis() returns,
\* also when touchEventStartTime + period passes 2^32. No Pressed and no Released event
\* is emitted less than 30 ms, no first AutoRepeat event less than 800 ms and no further
\* one less than 120 ms after the timer was started; and a wait ends at the first poll
\* that comes when its period is over, so it lasts no longer than the period plus the
\* interval of one poll.
C38_PeriodsHonouredAcrossWrap ==
  [][/\ touchEventType' \in {TOUCH_PUSHED_EVENT, TOUCH_RELEASED_EVENT}
          => SinceTimerStarted >= TOUCH_DEBOUNCE_PERIOD
     /\ (touchEventType' = TOUCH_REPEAT_EVENT /\ touchState = WAITING_FOR_TOUCH_UP_STATE)
          => SinceTimerStarted >= TOUCH_AUTO_REPEAT_DELAY
     /\ (touchEventType' = TOUCH_REPEAT_EVENT
           /\ touchState = WAITING_FOR_TOUCH_UP_AFTER_AUTO_REPEAT_STATE)
          => SinceTimerStarted >= TOUCH_AUTO_REPEAT_RATE
     /\ (touchState = CONFIRM_TOUCH_DOWN_STATE /\ SinceTimerStarted >= TOUCH_DEBOUNCE_PERIOD)
          => touchState' # CONFIRM_TOUCH_DOWN_STATE
     /\ (touchState = WAITING_FOR_TOUCH_UP_STATE /\ sample'.touched
           /\ SinceTimerStarted >= TOUCH_AUTO_REPEAT_DELAY)
          => touchEventType' = TOUCH_REPEAT_EVENT
     /\ (touchState = WAITING_FOR_TOUCH_UP_AFTER_AUTO_REPEAT_STATE /\ sample'.touched
           /\ SinceTimerStarted >= TOUCH_AUTO_REPEAT_RATE)
          => touchEventType' = TOUCH_REPEAT_EVENT
     /\ (touchState = CONFIRM_TOUCH_UP_STATE /\ ~sample'.touched
           /\ SinceTimerStarted >= TOUCH_DEBOUNCE_PERIOD)
          => touchEventType' = TOUCH_RELEASED_EVENT]_vars

\* C36: if the polls go on for ever and the screen is, from some poll on, never touched
\* again, then every Pressed event is followed by a Released event and the state machine
\* comes back to WAITING_FOR_TOUCH_DOWN_STATE and stays there.
C36_EveryPressIsReleased ==
  (<>[](~sample.touched)) =>
    /\ (touchEventType = TOUCH_PUSHED_EVENT) ~> (touchEventType = TOUCH_RELEASED_EVENT)
    /\ <>[](touchState = WAITING_FOR_TOUCH_DOWN_STATE)

\* ---- Properties of the menu loop and the touch cycle ----

\* C37: a menu item is executed only if the Pressed event of the same touch cycle was
\* received by the menu loop on the same item: the menu loop highlights an item when it
\* receives Pressed on it and clears the highlight when it receives Released, so an item
\* executed by an iteration of the menu loop was drawn highlighted before that iteration
C37_ExecutedItemWasPressedInMenu ==
  [][MenuLoopStep =>
       \A i \in DOMAIN calls' :
         calls'[i].op = "executeMenuItem" =>
           ButtonOf(currentMenuTable, calls'[i].idx, TRUE) \in buttons]_vars

\* ---- Properties of the two mappings of the Slider ----

\* the Sliders and values that the claim speaks of
InSteps(sl) ==
  /\ sl.maximumValue - sl.minimumValue <= sl.width
  /\ sl.value >= sl.minimumValue /\ sl.value <= sl.maximumValue
  /\ sl.value % sl.stepAmount = 0

\* C39: for a Slider with (maximumValue - minimumValue) <= width and an in-range value
\* that is a multiple of stepAmount, getBallsValue of the x-position that
\* getSliderBallXPosition computes returns the value, so a poll of a dragged Slider with
\* the touch exactly on the centre of the drawn ball leaves the value as it is
C39_BallCentreMapsBackToValue ==
  [][(/\ InSteps(slider.slider)
      /\ slider.slider.state = 1
      /\ sample'.touched
      /\ sample'.x = slider.ball)
       => /\ slider.ball = getSliderBallXPosition(slider.slider)
          /\ getBallsValue(slider.slider, slider.ball) = slider.slider.value
          /\ slider'.slider.value = slider.slider.value]_vars

====
